---- MODULE Spec2Model ----
(***************************************************************************)
(* Model of schedulebot's availability and booking engine:                 *)
(*   - the bookings / conversations tables of database.py,                 *)
(*   - the availability engine of core/availability.py,                    *)
(*   - the guest turn of core/engine.py (tool-use and text-tag paths),     *)
(*   - the MCP book_consultation call of mcp_server.py,                    *)
(*   - the book calendar as the environment (create_event / busy query),   *)
(*   - the MultiCalendarManager of calendar/multi_calendar.py,             *)
(*   - guest input validation and the rate limiter of core/engine.py.      *)
(* Time is counted in minutes since 00:00 of day 0 (a Monday) in the       *)
(* owner's time zone.  Every await of the code is a separate step, so      *)
(* turns and MCP calls interleave exactly at the code's suspension points. *)
(***************************************************************************)
EXTENDS Integers, Sequences, FiniteSets, TLC

VARIABLES
    bookings,       \* the bookings table: a set of rows, id is the primary key
    conversations,  \* the conversations table: sender_id -> stored row
    rules,          \* the availability_rules table, in SELECT order
    events,         \* the book calendar: events created through create_event
    config,         \* Config.dry_run and whether the LLM has chat_with_tools
    now,            \* datetime.now(tz), in minutes
    tokens,         \* number of secrets.token_urlsafe ids drawn so far
    started,        \* number of turns / MCP calls started so far
    proc,           \* the in-flight turns and MCP calls: locals and position
    calendars,      \* the providers behind a MultiCalendarManager, by name
    multi,          \* the MultiCalendarManager call in progress: locals and position
    _rate_limiter,  \* engine._rate_limiter: sender_id -> list of timestamps
    clock,          \* time.time(), in seconds
    message,        \* the IncomingMessage each handle_message call was given
    passed,         \* per sender, the times of its messages that passed validation
    retry,          \* the retry_async call in progress: locals and position
    reminder,       \* the ReminderLoop: locals and position of its check
    owner           \* the owner-mode handle_message call in progress

vars == <<bookings, conversations, rules, events, config, now, tokens, started, proc, calendars, multi, _rate_limiter, clock, message, passed, retry, reminder, owner>>

\* the state of retry_async, of the reminder loop and of the owner mode
extvars == <<retry, reminder, owner>>

\* the state of guest input validation
valvars == <<_rate_limiter, clock, message, passed>>

\* the state of the engine and the state of a MultiCalendarManager
sysvars == <<bookings, conversations, rules, events, config, now, tokens, started, proc, valvars, extvars>>

calvars == <<calendars, multi>>

----------------------------------------------------------------------------
(* Bounds of the model *)

\* at most this many turns and MCP calls are started in one behaviour
MaxOps == 2

\* the model (LLM) answers with tool calls at most this many times in one turn
MaxRounds == 1

\* the model (LLM) puts at most this many tool calls in one response
MaxToolCalls == 2

\* at most this many MultiCalendarManager calls are made in one behaviour
MaxCalls == 2

\* the availability_rules table holds at most this many rules when the
\* availability engine is exercised over varied rule sets
MaxRules == 3

\* at most this many messages are handled when input validation is exercised
MaxMessages == 9

\* the clock of the rate limiter is followed up to this many seconds
MaxClock == 60

\* retry_async is called with max_retries up to this number
MaxRetries == 2

\* at most this many retry_async calls are made in one behaviour
MaxRuns == 2

\* the reminder loop is followed for this many checks
MaxChecks == 2

\* at most this many cancellations are started in one behaviour
MaxCancels == 2

\* at most this many messages of the owner are handled in one behaviour
MaxOwnerMessages == 2

\* at most this many guest turns are started beside the owner's messages
MaxGuestTurns == 1

Procs == {"p1", "p2"}
\* sender ids, like every Python str of the model, are sequences of symbols
Senders == {<<"g1">>, <<"g2">>}

----------------------------------------------------------------------------
(* Configuration (config.py) *)

meeting_duration_minutes == 30
buffer_minutes == 15
min_notice_hours == 4
max_days_ahead == 14

MinutesPerDay == 24 * 60

DAYS_OF_WEEK == <<"monday", "tuesday", "wednesday", "thursday", "friday", "saturday", "sunday">>

\* the tool-use loop of a turn invokes the model at most this many times
MAX_TOOL_ITERATIONS == 5

MAX_ATTENDEE_EMAILS == 2

----------------------------------------------------------------------------
(* Strings are sequences of one-character strings. *)

Whitespace == {" ", "\n"}
Letters == {"a", "b", "c", "o"}
Digits == {"1"}
LocalChars == Letters \cup Digits \cup {".", "_", "%", "+", "-"}
DomainChars == Letters \cup Digits \cup {".", "-"}

RECURSIVE lstrip(_)
lstrip(s) == IF s # <<>> /\ Head(s) \in Whitespace THEN lstrip(Tail(s)) ELSE s

RECURSIVE rstrip(_)
rstrip(s) ==
    IF s # <<>> /\ s[Len(s)] \in Whitespace THEN rstrip(SubSeq(s, 1, Len(s) - 1)) ELSE s

\* str.strip()
strip(s) == rstrip(lstrip(s))

AllIn(s, lo, hi, chars) == \A k \in lo..hi : s[k] \in chars

\* EMAIL_RE.match(email): ^[a-zA-Z0-9._%+-]+@[a-zA-Z0-9.-]+\.[a-zA-Z]{2,}$
\* ($ also matches just before one trailing newline)
MatchesEmailUpTo(s, n) ==
    \E i \in 2..n : \E j \in (i + 2)..n :
        /\ s[i] = "@"
        /\ AllIn(s, 1, i - 1, LocalChars)
        /\ AllIn(s, i + 1, j - 1, DomainChars)
        /\ s[j] = "."
        /\ n - j >= 2
        /\ AllIn(s, j + 1, n, Letters)

\* fault: every string passes for an email address
_validate_emailAny(email) == TRUE

\* SchedulingEngine._validate_email: EMAIL_RE.match; `$` also matches before
\* one trailing newline
_validate_email(email) ==
    \/ MatchesEmailUpTo(email, Len(email))
    \/ /\ email # <<>>
       /\ email[Len(email)] = "\n"
       /\ MatchesEmailUpTo(email, Len(email) - 1)

----------------------------------------------------------------------------
(* Datetimes and their stored text form *)

\* datetime.isoformat(): the TEXT SQLite stores and compares; within one UTC
\* offset, text order is the order of (date, hour, minute)
isoformat(t) == <<t \div MinutesPerDay, (t % MinutesPerDay) \div 60, t % 60>>

\* datetime.fromisoformat()
fromisoformat(x) == x[1] * MinutesPerDay + x[2] * 60 + x[3]

\* SQLite's < on two TEXT values
TextLess(x, y) ==
    \/ x[1] < y[1]
    \/ x[1] = y[1] /\ x[2] < y[2]
    \/ x[1] = y[1] /\ x[2] = y[2] /\ x[3] < y[3]

NoSlot == [start |-> -1, end |-> -1]

TimeSlot(s, e) == [start |-> s, end |-> e]

\* half-open overlap of two TimeSlots
Overlap(a, b) == a.start < b.end /\ a.end > b.start

----------------------------------------------------------------------------
(* The bookings table (database.py) *)

\* a row of the bookings table; the topic, meet_link, notes and created_at
\* columns are written and never read by the modelled operations.
\* calendar_event_id: <<>> is NULL, <<0>> is "dry-run", <<n>> the n-th event;
\* cancel_token: <<>> is '' and <<n>> a drawn token
Row(id, guest_name, guest_channel, guest_sender_id, guest_email, attendee_emails, start, end, calendar_event_id, cancel_token) ==
    [id |-> id, guest_name |-> guest_name, guest_channel |-> guest_channel,
     guest_sender_id |-> guest_sender_id, guest_email |-> guest_email,
     attendee_emails |-> attendee_emails,
     slot_start |-> isoformat(start), slot_end |-> isoformat(end),
     calendar_event_id |-> calendar_event_id, cancel_token |-> cancel_token,
     reminder_sent |-> FALSE]

Ids(table) == {r.id : r \in table}

\* fault: the overlap query finds no row
OverlappingRowsNoCheck(table, start, end) == {}

\* WHERE slot_start < ? AND slot_end > ?   with (end.isoformat(), start.isoformat())
OverlappingRows(table, start, end) ==
    {r \in table : TextLess(r.slot_start, isoformat(end))
                   /\ TextLess(isoformat(start), r.slot_end)}

\* fault: the race guard never sees a booked slot
is_slot_bookedNever(table, start, end) == FALSE

\* Database.is_slot_booked
is_slot_booked(table, start, end) == OverlappingRows(table, start, end) # {}

\* fault: a refused reservation leaves its placeholder behind
reserve_slotKeepsRow(table, start, end, booking_id) ==
    [ok |-> OverlappingRows(table, start, end) = {} /\ booking_id \notin Ids(table),
     table |-> table \cup {Row(booking_id, <<>>, <<>>, <<>>, <<>>, <<>>, start, end, <<>>, <<>>)}]

\* Database.reserve_slot, one exclusive transaction under the lock:
\* [ok, table]; the INSERT of an id that is already a key raises and the
\* handler rolls back and returns False
reserve_slot(table, start, end, booking_id) ==
    IF OverlappingRows(table, start, end) # {} THEN [ok |-> FALSE, table |-> table]
    ELSE IF booking_id \in Ids(table) THEN [ok |-> FALSE, table |-> table]
    ELSE [ok |-> TRUE,
          table |-> table \cup {Row(booking_id, <<>>, <<>>, <<>>, <<>>, <<>>, start, end, <<>>, <<>>)}]

\* fault: the UPDATE of finalize_booking changes no row
finalize_bookingNoUpdate(table, booking) == table

\* fault: the UPDATE also writes the booking's interval
finalize_bookingMovesSlot(table, booking) ==
    {IF r.id = booking.id
        THEN [booking EXCEPT !.reminder_sent = r.reminder_sent]
        ELSE r : r \in table}

\* Database.finalize_booking: UPDATE ... WHERE id = booking.id
finalize_booking(table, booking) ==
    {IF r.id = booking.id
        THEN [r EXCEPT !.guest_name = booking.guest_name,
                       !.guest_channel = booking.guest_channel,
                       !.guest_sender_id = booking.guest_sender_id,
                       !.guest_email = booking.guest_email,
                       !.attendee_emails = booking.attendee_emails,
                       !.calendar_event_id = booking.calendar_event_id,
                       !.cancel_token = booking.cancel_token]
        ELSE r : r \in table}

\* fault: the DELETE of release_slot removes nothing
release_slotNoDelete(table, booking_id) == table

\* Database.release_slot: DELETE FROM bookings WHERE id = ?
release_slot(table, booking_id) == {r \in table : r.id # booking_id}

\* fault: save_booking reports success and stores nothing
save_bookingNoInsert(table, booking) == [ok |-> TRUE, table |-> table]

\* Database.save_booking: a plain INSERT (no overlap check); raises on a
\* duplicate primary key
save_booking(table, booking) ==
    IF booking.id \in Ids(table) THEN [ok |-> FALSE, table |-> table]
    ELSE [ok |-> TRUE, table |-> table \cup {booking}]

\* a reserved row that was never finalized: reserve_slot's empty guest fields
IsPlaceholder(r) == r.guest_name = <<>> /\ r.guest_channel = <<>> /\ r.guest_sender_id = <<>>

RowSlot(r) == TimeSlot(fromisoformat(r.slot_start), fromisoformat(r.slot_end))

----------------------------------------------------------------------------
(* The availability engine (core/availability.py) *)

\* an availability rule; day_of_week is "" or a day name, specific_date is
\* <<>> (the empty string) or <<d>> (the date of day d), the times are <<h, m>>
AvailabilityRule(day_of_week, specific_date, start_time, end_time, is_blocked) ==
    [day_of_week |-> day_of_week, specific_date |-> specific_date,
     start_time |-> start_time, end_time |-> end_time, is_blocked |-> is_blocked]

\* current_day.strftime("%Y-%m-%d")
date_str(current_day) == <<current_day \div MinutesPerDay>>

\* DAYS_OF_WEEK[current_day.weekday()]; day 0 is a Monday
day_name(current_day) == DAYS_OF_WEEK[((current_day \div MinutesPerDay) % 7) + 1]

\* current_day.replace(hour=h, minute=m) with (h, m) from parse_time_range
replace_hm(current_day, hm) == current_day + hm[1] * 60 + hm[2]

\* the four dictionaries of _generate_rule_slots, read with .get(key, [])
recurring(rs, day) == SelectSeq(rs, LAMBDA r : ~r.is_blocked /\ r.day_of_week = day)

specific(rs, date) ==
    SelectSeq(rs, LAMBDA r : ~r.is_blocked /\ r.day_of_week = "" /\ r.specific_date = date)

blocked_recurring(rs, day) == SelectSeq(rs, LAMBDA r : r.is_blocked /\ r.day_of_week = day)

blocked_specific(rs, date) ==
    SelectSeq(rs, LAMBDA r : r.is_blocked /\ r.day_of_week = "" /\ r.specific_date = date)

\* fault: the recurring open rules are added to those of the date
day_rulesMerged(rs, current_day) ==
    specific(rs, date_str(current_day)) \o recurring(rs, day_name(current_day))

\* day_rules = specific.get(date_str, recurring.get(day_name, []))
day_rules(rs, current_day) ==
    IF specific(rs, date_str(current_day)) # <<>>
        THEN specific(rs, date_str(current_day))
        ELSE recurring(rs, day_name(current_day))

\* fault: the blocked rules of a specific date are not looked up
day_blockedRecurring(rs, current_day) == blocked_recurring(rs, day_name(current_day))

\* day_blocked = blocked_specific.get(date_str, []) + blocked_recurring.get(day_name, [])
day_blocked(rs, current_day) ==
    blocked_specific(rs, date_str(current_day)) \o blocked_recurring(rs, day_name(current_day))

\* fault: the slots of a range follow each other without the buffer
RECURSIVE TileRangeNoBuffer(_, _, _, _, _)
TileRangeNoBuffer(slot_start, range_end, current_day, blocked, start) ==
    IF slot_start + meeting_duration_minutes <= range_end
        THEN LET slot_end == slot_start + meeting_duration_minutes
                 is_blocked ==
                     \E k \in 1..Len(blocked) :
                         /\ slot_start < replace_hm(current_day, blocked[k].end_time)
                         /\ slot_end > replace_hm(current_day, blocked[k].start_time)
                 rest == TileRangeNoBuffer(slot_end, range_end, current_day, blocked, start)
             IN  IF ~is_blocked /\ slot_start >= start
                     THEN <<TimeSlot(slot_start, slot_end)>> \o rest
                     ELSE rest
        ELSE <<>>

\* the inner while loop: tile one open range from slot_start on
RECURSIVE TileRange(_, _, _, _, _)
TileRange(slot_start, range_end, current_day, blocked, start) ==
    IF slot_start + meeting_duration_minutes <= range_end
        THEN LET slot_end == slot_start + meeting_duration_minutes
                 is_blocked ==
                     \E k \in 1..Len(blocked) :
                         /\ slot_start < replace_hm(current_day, blocked[k].end_time)
                         /\ slot_end > replace_hm(current_day, blocked[k].start_time)
                 rest == TileRange(slot_end + buffer_minutes, range_end, current_day,
                                   blocked, start)
             IN  IF ~is_blocked /\ slot_start >= start
                     THEN <<TimeSlot(slot_start, slot_end)>> \o rest
                     ELSE rest
        ELSE <<>>

\* for rule in day_rules
RECURSIVE DaySlots(_, _, _, _)
DaySlots(open, current_day, blocked, start) ==
    IF open = <<>> THEN <<>>
    ELSE TileRange(replace_hm(current_day, Head(open).start_time),
                   replace_hm(current_day, Head(open).end_time),
                   current_day, blocked, start)
         \o DaySlots(Tail(open), current_day, blocked, start)

\* while current_day < end
RECURSIVE DaysFrom(_, _, _, _)
DaysFrom(rs, current_day, start, end) ==
    IF current_day < end
        THEN DaySlots(day_rules(rs, current_day), current_day,
                      day_blocked(rs, current_day), start)
             \o DaysFrom(rs, current_day + MinutesPerDay, start, end)
        ELSE <<>>

\* AvailabilityEngine._generate_rule_slots
_generate_rule_slots(rs, start, end) ==
    DaysFrom(rs, (start \div MinutesPerDay) * MinutesPerDay, start, end)

\* AvailabilityEngine._subtract_busy
_subtract_busy(slots, busy) ==
    SelectSeq(slots, LAMBDA slot : ~\E b \in busy : slot.start < b.end /\ slot.end > b.start)

\* the two bounds get_available_slots derives from now (or from_date)
min_start(from) == from + min_notice_hours * 60

end_date(from) == from + max_days_ahead * MinutesPerDay

\* AvailabilityEngine.get_available_slots up to its await: the slots of the
\* rules, from min_start to end_date (empty without rules)
raw_slots(rs, from) ==
    IF rs = <<>> THEN <<>> ELSE _generate_rule_slots(rs, min_start(from), end_date(from))

\* the book calendar's answer to get_busy_times: the intervals of its events
get_busy_times(evs) == {TimeSlot(e.start, e.end) : e \in evs}

\* fault: a failed busy query leaves no slot
get_available_slotsNone(raw, evs, calendar_ok) ==
    IF calendar_ok THEN _subtract_busy(raw, get_busy_times(evs)) ELSE <<>>

\* AvailabilityEngine.get_available_slots from its await on: the raw slots
\* less the busy times, or the raw slots when the busy query raised
get_available_slots(raw, evs, calendar_ok) ==
    IF calendar_ok THEN _subtract_busy(raw, get_busy_times(evs)) ELSE raw

----------------------------------------------------------------------------
(* Conversations (models.py, database.py) *)

\* Conversation(sender_id, channel): the fields the guest flow reads; the
\* message history and the guest time zone decide nothing here
NewConversation ==
    [state |-> "greeting", guest_name |-> <<>>, guest_email |-> <<>>, guest_topic |-> <<>>,
     attendee_emails |-> <<>>, selected_slot |-> NoSlot]

\* Database.save_conversation: the row written for conv (NULL is <<>>)
StoredConversation(conv) ==
    [state |-> conv.state, guest_name |-> conv.guest_name, guest_email |-> conv.guest_email,
     guest_topic |-> conv.guest_topic, attendee_emails |-> conv.attendee_emails,
     selected_slot_start |->
         IF conv.selected_slot # NoSlot THEN isoformat(conv.selected_slot.start) ELSE <<>>,
     selected_slot_end |->
         IF conv.selected_slot # NoSlot THEN isoformat(conv.selected_slot.end) ELSE <<>>]

\* Database.get_conversation for a sender that has a row
LoadConversation(row) ==
    [state |-> row.state, guest_name |-> row.guest_name, guest_email |-> row.guest_email,
     guest_topic |-> row.guest_topic, attendee_emails |-> row.attendee_emails,
     selected_slot |->
         IF row.selected_slot_start # <<>> /\ row.selected_slot_end # <<>>
             THEN TimeSlot(fromisoformat(row.selected_slot_start),
                           fromisoformat(row.selected_slot_end))
             ELSE NoSlot]

get_conversation(table, sender_id) ==
    IF sender_id \in DOMAIN table THEN LoadConversation(table[sender_id]) ELSE NewConversation

save_conversation(table, sender_id, conv) ==
    [s \in DOMAIN table \cup {sender_id} |->
        IF s = sender_id THEN StoredConversation(conv) ELSE table[s]]

delete_conversation(table, sender_id) ==
    [s \in DOMAIN table \ {sender_id} |-> table[s]]

----------------------------------------------------------------------------
(* Guest tools (core/engine.py) *)

\* a tool call of the model; input holds params.get(key, default) of every key
ToolCall(name, input) == [name |-> name, input |-> input]

ToolInput(name, email, topic, slot_number, attendee_emails) ==
    [name |-> name, email |-> email, topic |-> topic, slot_number |-> slot_number,
     attendee_emails |-> attendee_emails]

\* fault: the guest-info check of confirm_booking lets every conversation pass
HasGuestInfoAlways(conv) == TRUE

\* confirm_booking's `conv.guest_name and conv.guest_email`
HasGuestInfo(conv) == conv.guest_name # <<>> /\ conv.guest_email # <<>>

\* SchedulingEngine._execute_guest_tool: the conversation it leaves and its result text
_execute_guest_tool(name, params, conv, slots) ==
    IF name = "collect_guest_info" THEN
        IF strip(params.name) = <<>>
            THEN [conv |-> conv, output |-> "Error: name is required."]
        ELSE IF strip(params.email) = <<>> \/ ~_validate_email(strip(params.email))
            THEN [conv |-> conv, output |-> "Error: valid email is required."]
        ELSE [conv |-> [conv EXCEPT !.guest_name = strip(params.name),
                                    !.guest_email = strip(params.email),
                                    !.guest_topic = strip(params.topic),
                                    !.state = "collecting_info"],
              output |-> "Saved"]
    ELSE IF name = "confirm_booking" THEN
        IF ~HasGuestInfo(conv)
            THEN [conv |-> conv, output |-> "Error: must call collect_guest_info first"]
        ELSE IF Len(params.attendee_emails) > MAX_ATTENDEE_EMAILS
            THEN [conv |-> conv, output |-> "Error: max additional attendees allowed."]
        ELSE IF \E k \in 1..Len(params.attendee_emails) :
                    ~_validate_email(params.attendee_emails[k])
            THEN [conv |-> conv, output |-> "Error: invalid attendee email"]
        ELSE IF ~(0 <= params.slot_number - 1 /\ params.slot_number - 1 < Len(slots))
            THEN [conv |-> conv, output |-> "Error: invalid slot number"]
        ELSE [conv |-> [conv EXCEPT !.selected_slot = slots[params.slot_number],
                                    !.attendee_emails = params.attendee_emails,
                                    !.state = "confirmation"],
              output |-> "PENDING_BOOKING"]
    ELSE [conv |-> conv, output |-> "Unknown tool"]

----------------------------------------------------------------------------
(* Turns and MCP calls in flight *)

\* the locals of one guest turn (handle_message) or one MCP book_consultation
\* call.  pc is the await the coroutine is suspended at, or "tools" while the
\* turn runs the tool calls of one model response without suspending.
\* event_failure records for the turn whether create_event raised in it:
\* "last" when no booking was created since, "earlier" when one was.  op is the
\* place of a guest's message in the order in which handle_message was entered,
\* busy_failed whether the calendar's busy query raised in this turn or call.
IdleLocal ==
    [pc |-> "idle", kind |-> "none", op |-> 0, busy_failed |-> FALSE, sender |-> <<>>, conv |-> NewConversation,
     slots |-> <<>>, ntools |-> 0, tool_output |-> "", iter |-> 0, booking |-> <<>>,
     metadata |-> <<>>, event_failure |-> "none", slot |-> NoSlot, reservation_id |-> 0,
     client_name |-> <<>>, client_email |-> <<>>, cancel_token |-> <<>>, result |-> ""]

\* asyncio runs one coroutine at a time: while a turn is executing tool calls
\* nothing else is scheduled
Scheduled(p) == \A q \in Procs \ {p} : proc[q].pc # "tools"

\* the Booking that _create_booking builds for conv (cancel_token stays '')
GuestBooking(id, l, calendar_event_id) ==
    Row(id, IF l.conv.guest_name # <<>> THEN l.conv.guest_name ELSE <<"Guest">>,
        <<"web">>, l.sender, l.conv.guest_email, l.conv.attendee_emails,
        l.conv.selected_slot.start, l.conv.selected_slot.end, calendar_event_id, <<>>)

\* fault: no rollback
RolledBackNot(conv) == conv

\* the state rollback after a lost race or a failed _create_booking
RolledBack(conv) == [conv EXCEPT !.state = "collecting_info", !.selected_slot = NoSlot]

\* the end of one pass of the tool-use loop: the final model call after a
\* booking, the next model call, or the fallback once the cap is reached
AfterTools(l) ==
    IF l.booking # <<>> THEN [l EXCEPT !.pc = "final"]
    ELSE IF l.iter + 1 < MAX_TOOL_ITERATIONS THEN [l EXCEPT !.pc = "llm", !.iter = @ + 1]
    ELSE [l EXCEPT !.pc = "done", !.iter = @ + 1]

\* SchedulingEngine._parse_booking_action on a response carrying [BOOK:n]
\* (tag "number"), [BOOK:<datetime>] (tag "datetime") or no tag
_parse_booking_action(response, slots, conv) ==
    IF response.tag = "number" /\ 0 <= response.n - 1 /\ response.n - 1 < Len(slots)
        THEN [conv |-> [conv EXCEPT !.selected_slot = slots[response.n],
                                    !.state = "confirmation"],
              action |-> "book"]
    ELSE IF response.tag = "datetime"
        THEN [conv |-> [conv EXCEPT !.selected_slot =
                                        TimeSlot(response.start,
                                                 response.start + meeting_duration_minutes),
                                    !.state = "confirmation"],
              action |-> "book"]
    ELSE [conv |-> IF conv.state = "greeting"
                       THEN [conv EXCEPT !.state = "collecting_info"] ELSE conv,
          action |-> "none"]

----------------------------------------------------------------------------
(* What the model (LLM) and the callers may send *)

GoodName == <<"a">>
BlankName == <<" ">>
GoodEmail == <<"a", "@", "b", ".", "c", "o">>
PaddedEmail == <<" ", "a", "@", "b", ".", "c", "o">>
BadEmail == <<"a", "@", "b">>
\* an address followed by a line feed
NewlineEmail == <<"a", "@", "b", ".", "c", "o", "\n">>

CollectCalls ==
    {ToolCall("collect_guest_info", ToolInput(n, e, <<>>, 0, <<>>)) :
        n \in {GoodName}, e \in {PaddedEmail, BadEmail, <<>>}}
    \cup {ToolCall("collect_guest_info", ToolInput(BlankName, GoodEmail, <<>>, 0, <<>>))}

ConfirmCalls ==
    {ToolCall("confirm_booking", ToolInput(<<>>, <<>>, <<>>, k, <<>>)) : k \in 0..3}
    \cup {ToolCall("confirm_booking", ToolInput(<<>>, <<>>, <<>>, 1, a)) :
              a \in {<<BadEmail>>, <<NewlineEmail>>, <<GoodEmail, GoodEmail, GoodEmail>>}}

ToolCalls == CollectCalls \cup ConfirmCalls \cup {ToolCall("other", ToolInput(<<>>, <<>>, <<>>, 0, <<>>))}

\* the quarter hours of day 1 from which [BOOK:<datetime>] and the MCP caller
\* pick a start
StartTimes == {MinutesPerDay + 9 * 60, MinutesPerDay + 9 * 60 + 15, MinutesPerDay + 9 * 60 + 45}

TextResponses ==
    {[tag |-> "none", n |-> 0, start |-> 0]}
    \cup {[tag |-> "number", n |-> k, start |-> 0] : k \in 0..3}
    \cup {[tag |-> "datetime", n |-> 0, start |-> t] : t \in StartTimes}

\* config.services: one configured service, half as long as a meeting, besides
\* the default duration (service None)
Services == {"short"}

service_duration(service) ==
    IF service = "short" THEN meeting_duration_minutes \div 2 ELSE meeting_duration_minutes

\* the intervals a caller may hand to reserve_slot
Intervals == {TimeSlot(t, t + service_duration(sv)) : t \in StartTimes, sv \in {"", "short"}}

----------------------------------------------------------------------------
(* Guest turns: SchedulingEngine.handle_message for a non-owner sender *)

\* what is left of a turn's locals once handle_message has returned: the
\* message it handled, the response metadata (and the record of a create_event
\* failure)
Returned(l) ==
    [IdleLocal EXCEPT !.pc = "done", !.kind = l.kind, !.op = l.op, !.sender = l.sender,
                      !.metadata = l.metadata, !.event_failure = l.event_failure]

\* the step taken leaves turn p with locals l; a turn that has run to its end
\* (pc "done") saves its conversation and returns
Settle(p, l) ==
    /\ proc' = [proc EXCEPT ![p] = IF l.pc = "done" THEN Returned(l) ELSE l]
    /\ conversations' =
           IF l.pc = "done" THEN save_conversation(conversations, l.sender, l.conv)
           ELSE conversations

\* handle_message up to the first await: /cancel deletes the conversation and
\* returns; otherwise the conversation is loaded (deleted and recreated on
\* /start) and get_available_slots reads the rules and asks the calendar
BeginTurn(p, sender_id, text, ops) ==
    /\ Scheduled(p)
    /\ proc[p].pc \in {"idle", "done"}
    /\ started < ops
    /\ started' = started + 1
    /\ UNCHANGED <<bookings, rules, events, config, calvars, now, tokens>>
    /\ IF text = "/cancel"
           THEN /\ conversations' = delete_conversation(conversations, sender_id)
                /\ proc' = [proc EXCEPT ![p] =
                       Returned([IdleLocal EXCEPT !.kind = "cancel", !.op = started + 1,
                                                  !.sender = sender_id])]
           ELSE /\ conversations' =
                       IF text = "/start" THEN delete_conversation(conversations, sender_id)
                       ELSE conversations
                /\ proc' = [proc EXCEPT ![p] =
                       [IdleLocal EXCEPT
                           !.kind = IF config.has_tools THEN "tools" ELSE "text",
                           !.op = started + 1,
                           !.sender = sender_id,
                           !.conv = IF text = "/start" THEN NewConversation
                                    ELSE get_conversation(conversations, sender_id),
                           !.slots = raw_slots(rules, now),
                           !.pc = IF raw_slots(rules, now) # <<>> THEN "busy" ELSE "llm"]]

\* a message that passes validation (a command, or a short text without an
\* injection pattern from a sender under the rate limit) begins a turn
GuestBegin(p, sender_id, text) ==
    /\ BeginTurn(p, sender_id, text, MaxOps)
    /\ UNCHANGED <<valvars, extvars>>

\* await self.calendar.get_busy_times inside get_available_slots
GuestBusyReturns(p, calendar_ok) ==
    /\ Scheduled(p)
    /\ proc[p].pc = "busy"
    /\ proc' = [proc EXCEPT ![p].pc = "llm",
                            ![p].busy_failed = ~calendar_ok,
                            ![p].slots = get_available_slots(@, events, calendar_ok)]
    /\ UNCHANGED <<bookings, conversations, rules, events, config, calvars, valvars, extvars, now, tokens, started>>

\* await self.llm.chat_with_tools raised, or returned text and no tool call:
\* the turn ends with that text
LlmAnswers(p) ==
    /\ Scheduled(p)
    /\ proc[p].pc = "llm" /\ proc[p].kind = "tools"
    /\ Settle(p, [proc[p] EXCEPT !.pc = "done"])
    /\ UNCHANGED <<bookings, rules, events, config, calvars, valvars, extvars, now, tokens, started>>

\* await self.llm.chat_with_tools returned tool calls: booking = None and the
\* loop over result.tool_calls starts; the model answers with tool calls in
\* the first `rounds` passes of the loop at most
LlmCallsToolsUpTo(p, rounds) ==
    /\ Scheduled(p)
    /\ proc[p].pc = "llm" /\ proc[p].kind = "tools"
    /\ proc[p].iter < rounds
    /\ proc' = [proc EXCEPT ![p].pc = "tools", ![p].ntools = 0, ![p].booking = <<>>,
                            ![p].tool_output = ""]
    /\ UNCHANGED <<bookings, conversations, rules, events, config, calvars, valvars, extvars, now, tokens, started>>

\* the model answers with tool calls in the first MaxRounds passes
LlmCallsTools(p) == LlmCallsToolsUpTo(p, MaxRounds)

\* one pass of `for tc in result.tool_calls`: _execute_guest_tool, then for a
\* confirm_booking that selected a slot the race guard and _create_booking up
\* to its await (in a dry run: save_booking, then the notifier is awaited)
ExecTool(p, tc) ==
    /\ proc[p].pc = "tools"
    /\ proc[p].ntools < MaxToolCalls
    /\ LET r == _execute_guest_tool(tc.name, tc.input, proc[p].conv, proc[p].slots)
           l == [proc[p] EXCEPT !.conv = r.conv, !.tool_output = r.output, !.ntools = @ + 1]
       IN  IF tc.name = "confirm_booking" /\ r.conv.state = "confirmation"
               THEN IF /\ r.conv.selected_slot # NoSlot
                       /\ is_slot_booked(bookings, r.conv.selected_slot.start,
                                         r.conv.selected_slot.end)
                        THEN /\ proc' = [proc EXCEPT ![p] =
                                    [l EXCEPT !.conv = RolledBack(@),
                                              !.tool_output = "Sorry, this slot was just booked"]]
                             /\ UNCHANGED <<bookings, tokens>>
                    ELSE IF r.conv.selected_slot = NoSlot
                        THEN /\ proc' = [proc EXCEPT ![p] =
                                    [l EXCEPT !.conv = RolledBack(@), !.booking = <<>>,
                                              !.tool_output = "Failed to create booking."]]
                             /\ UNCHANGED <<bookings, tokens>>
                    ELSE IF config.dry_run
                        THEN /\ proc' = [proc EXCEPT ![p] =
                                    [l EXCEPT !.pc = "notify",
                                              !.booking = <<GuestBooking(tokens + 1, l, <<0>>)>>]]
                             /\ bookings' =
                                    save_booking(bookings, GuestBooking(tokens + 1, l, <<0>>)).table
                             /\ tokens' = tokens + 1
                    ELSE /\ proc' = [proc EXCEPT ![p] = [l EXCEPT !.pc = "create_event"]]
                         /\ UNCHANGED <<bookings, tokens>>
               ELSE /\ proc' = [proc EXCEPT ![p] = l]
                    /\ UNCHANGED <<bookings, tokens>>
    /\ UNCHANGED <<conversations, rules, events, config, calvars, valvars, extvars, now, started>>

\* result.tool_calls is exhausted (it held at least one call)
EndTools(p) ==
    /\ proc[p].pc = "tools"
    /\ proc[p].ntools >= 1
    /\ Settle(p, AfterTools([proc[p] EXCEPT !.ntools = 0, !.tool_output = ""]))
    /\ UNCHANGED <<bookings, rules, events, config, calvars, valvars, extvars, now, tokens, started>>

\* await self.llm.chat returned (or raised: the apology carries no tag), then
\* _parse_booking_action and the booking of the text-tag path
LlmTextReturns(p, response) ==
    /\ Scheduled(p)
    /\ proc[p].pc = "llm" /\ proc[p].kind = "text"
    /\ LET r == _parse_booking_action(response, proc[p].slots, proc[p].conv)
           l == [proc[p] EXCEPT !.conv = r.conv]
       IN  IF r.action = "book" /\ r.conv.selected_slot # NoSlot
               THEN IF is_slot_booked(bookings, r.conv.selected_slot.start,
                                      r.conv.selected_slot.end)
                        THEN /\ Settle(p, [l EXCEPT !.conv = RolledBack(@), !.pc = "done"])
                             /\ UNCHANGED <<bookings, tokens>>
                    ELSE IF config.dry_run
                        THEN /\ Settle(p, [l EXCEPT !.pc = "notify",
                                       !.booking = <<GuestBooking(tokens + 1, l, <<0>>)>>])
                             /\ bookings' =
                                    save_booking(bookings, GuestBooking(tokens + 1, l, <<0>>)).table
                             /\ tokens' = tokens + 1
                    ELSE /\ Settle(p, [l EXCEPT !.pc = "create_event"])
                         /\ UNCHANGED <<bookings, tokens>>
               ELSE /\ Settle(p, [l EXCEPT !.pc = "done"])
                    /\ UNCHANGED <<bookings, tokens>>
    /\ UNCHANGED <<rules, events, config, calvars, valvars, extvars, now, started>>

\* the book calendar's create_event: the event it adds, with id event_id
CalendarEvent(event_id, slot) == [event_id |-> event_id, start |-> slot.start, end |-> slot.end]

\* await self.calendar.create_event in _create_booking raised: None is
\* returned and the caller rolls the state back; the tool-use loop goes on
\* with the next tool call, the text-tag path returns
GuestCreateEventFails(p) ==
    /\ Scheduled(p)
    /\ proc[p].pc = "create_event"
    /\ LET l == [proc[p] EXCEPT !.conv = RolledBack(@), !.booking = <<>>,
                                !.event_failure = "last",
                                !.tool_output = "Failed to create booking."]
       IN  Settle(p, [l EXCEPT !.pc = IF l.kind = "tools" THEN "tools" ELSE "done"])
    /\ UNCHANGED <<bookings, rules, events, config, calvars, valvars, extvars, now, tokens, started>>

\* await self.calendar.create_event returned the event: the Booking gets a
\* fresh id (the INSERT of save_booking cannot hit an existing key) and is
\* stored, then the notifier is awaited
GuestCreateEventReturns(p) ==
    /\ Scheduled(p)
    /\ proc[p].pc = "create_event"
    /\ LET event_id == tokens + 1
           booking == GuestBooking(tokens + 2, proc[p], <<event_id>>)
       IN  /\ events' = events \cup {CalendarEvent(event_id, proc[p].conv.selected_slot)}
           /\ tokens' = tokens + 2
           /\ bookings' = save_booking(bookings, booking).table
           /\ proc' = [proc EXCEPT ![p].pc = "notify", ![p].booking = <<booking>>]
    /\ UNCHANGED <<conversations, rules, config, calvars, valvars, extvars, now, started>>

\* await self._notify_owner returned: _create_booking returns the booking and
\* the caller sets BOOKED; the text-tag path returns it in the metadata
GuestNotifyReturns(p) ==
    /\ Scheduled(p)
    /\ proc[p].pc = "notify"
    /\ LET l == [proc[p] EXCEPT !.conv.state = "booked",
                                !.tool_output = "Booking confirmed",
                                !.event_failure = IF @ = "none" THEN "none" ELSE "earlier"]
       IN  IF l.kind = "tools"
               THEN Settle(p, [l EXCEPT !.pc = "tools"])
               ELSE Settle(p, [l EXCEPT !.pc = "done", !.metadata = <<Head(l.booking).id>>])
    /\ UNCHANGED <<bookings, rules, events, config, calvars, valvars, extvars, now, tokens, started>>

\* the final chat_with_tools after a booking returned or raised: the response
\* carries the booking id
GuestFinalReturns(p) ==
    /\ Scheduled(p)
    /\ proc[p].pc = "final"
    /\ Settle(p, [proc[p] EXCEPT !.pc = "done", !.metadata = <<Head(proc[p].booking).id>>])
    /\ UNCHANGED <<bookings, rules, events, config, calvars, valvars, extvars, now, tokens, started>>

----------------------------------------------------------------------------
(* MCP book_consultation (mcp_server.py) *)

\* what is left of a call's locals once book_consultation has returned
McpDone(l, result) ==
    [IdleLocal EXCEPT !.pc = "done", !.kind = "mcp", !.result = result,
                      !.reservation_id = l.reservation_id, !.slot = l.slot]

\* the Booking that book_consultation finalizes its reservation with
McpBooking(l, calendar_event_id) ==
    Row(l.reservation_id, l.client_name, <<"mcp">>, l.client_email, l.client_email, <<>>,
        l.slot.start, l.slot.end, calendar_event_id, l.cancel_token)

\* book_consultation up to its first await: input checks, date bounds, then
\* get_available_slots(day_start) reads the rules and asks the calendar
McpBegin(p, client_name, client_email, service, start) ==
    /\ Scheduled(p)
    /\ proc[p].pc \in {"idle", "done"}
    /\ started < MaxOps
    /\ started' = started + 1
    /\ LET l == [IdleLocal EXCEPT !.kind = "mcp", !.client_name = client_name,
                                  !.client_email = client_email,
                                  !.slot = TimeSlot(start, start + service_duration(service))]
           day_start == (start \div MinutesPerDay) * MinutesPerDay
       IN  proc' = [proc EXCEPT ![p] =
               IF ~_validate_email(client_email) THEN McpDone(l, "Invalid email format.")
               ELSE IF service # "" /\ service \notin Services
                   THEN McpDone(l, "Unknown service")
               ELSE IF start < now THEN McpDone(l, "Cannot book in the past.")
               ELSE IF start > now + max_days_ahead * MinutesPerDay
                   THEN McpDone(l, "Cannot book that far ahead.")
               ELSE IF raw_slots(rules, day_start) = <<>>
                   THEN McpDone(l, "Requested time slot is not available.")
               ELSE [l EXCEPT !.pc = "mcp_busy", !.slots = raw_slots(rules, day_start)]]
    /\ UNCHANGED <<bookings, conversations, rules, events, config, calvars, valvars, extvars, now, tokens>>

\* get_available_slots answered; the slot must lie inside an available slot,
\* then reserve_slot, and in a dry run finalize_booking at once
McpBusyReturns(p, calendar_ok) ==
    /\ Scheduled(p)
    /\ proc[p].pc = "mcp_busy"
    /\ LET l == proc[p]
           available_slots == get_available_slots(l.slots, events, calendar_ok)
           slot_available == \E k \in 1..Len(available_slots) :
                                 /\ available_slots[k].start <= l.slot.start
                                 /\ available_slots[k].end >= l.slot.end
           reserved == reserve_slot(bookings, l.slot.start, l.slot.end, tokens + 1)
           l1 == [l EXCEPT !.reservation_id = tokens + 1, !.cancel_token = <<tokens + 2>>,
                           !.slots = <<>>, !.busy_failed = ~calendar_ok]
       IN  IF ~slot_available
               THEN /\ proc' = [proc EXCEPT ![p] =
                           McpDone(l, "Requested time slot is not available.")]
                    /\ UNCHANGED <<bookings, tokens>>
           ELSE IF ~reserved.ok
               THEN /\ proc' = [proc EXCEPT ![p] =
                           McpDone(l, "This slot was just booked by someone else.")]
                    /\ bookings' = reserved.table
                    /\ tokens' = tokens + 1
           ELSE IF config.dry_run
               THEN /\ proc' = [proc EXCEPT ![p] = McpDone(l1, "confirmed (dry-run)")]
                    /\ bookings' = finalize_booking(reserved.table, McpBooking(l1, <<0>>))
                    /\ tokens' = tokens + 2
           ELSE /\ proc' = [proc EXCEPT ![p] = [l1 EXCEPT !.pc = "mcp_create"]]
                /\ bookings' = reserved.table
                /\ tokens' = tokens + 2
    /\ UNCHANGED <<conversations, rules, events, config, calvars, valvars, extvars, now, started>>

\* await calendar.create_event raised: release_slot, error result
McpCreateEventFails(p) ==
    /\ Scheduled(p)
    /\ proc[p].pc = "mcp_create"
    /\ bookings' = release_slot(bookings, proc[p].reservation_id)
    /\ proc' = [proc EXCEPT ![p] = McpDone(proc[p], "Failed to create calendar event.")]
    /\ UNCHANGED <<conversations, rules, events, config, calvars, valvars, extvars, now, tokens, started>>

\* await calendar.create_event returned: finalize_booking, then the notifier
McpCreateEventReturns(p) ==
    /\ Scheduled(p)
    /\ proc[p].pc = "mcp_create"
    /\ events' = events \cup {CalendarEvent(tokens + 1, proc[p].slot)}
    /\ tokens' = tokens + 1
    /\ bookings' = finalize_booking(bookings, McpBooking(proc[p], <<tokens + 1>>))
    /\ proc' = [proc EXCEPT ![p].pc = "mcp_notify"]
    /\ UNCHANGED <<conversations, rules, config, calvars, valvars, extvars, now, started>>

\* await _notifier.notify_new_booking returned or raised: the confirmed result
McpNotifyReturns(p) ==
    /\ Scheduled(p)
    /\ proc[p].pc = "mcp_notify"
    /\ proc' = [proc EXCEPT ![p] = McpDone(proc[p], "confirmed")]
    /\ UNCHANGED <<bookings, conversations, rules, events, config, calvars, valvars, extvars, now, tokens, started>>

----------------------------------------------------------------------------
(* The system *)

\* the owner has opened day 1 (a Tuesday) from 09:00 to 10:15
InitRules == <<AvailabilityRule("", <<1>>, <<9, 0>>, <<10, 15>>, FALSE)>>

\* the message of a call that was given none yet
NoMessage == [text |-> "", len |-> 0, injection |-> FALSE]

\* a fresh process: the rate limiter is empty and the clock starts
NoMessages ==
    /\ _rate_limiter = [s \in Senders |-> <<>>]
    /\ clock = 0
    /\ message = [p \in Procs |-> NoMessage]
    /\ passed = [s \in Senders |-> <<>>]

\* no retry_async call in progress
RetryIdle == [pc |-> "idle", max_retries |-> 0, attempt |-> 0, calls |-> 0, runs |-> 0, errors |-> <<>>, last_exc |-> <<>>, raised |-> <<>>]

\* the reminder loop between two checks; processed lists the ids of the
\* bookings its checks have processed so far
ReminderIdle == [pc |-> "sleep", batch |-> <<>>, checks |-> 0, processed |-> <<>>, owner_adapter |-> FALSE, send_failed |-> FALSE, failed |-> {}]

\* no owner-mode call in progress
OwnerIdle == [pc |-> "idle", channel |-> "", sender_id |-> <<>>, has_tools |-> FALSE, iter |-> 0, handled |-> 0, conv |-> NewConversation]

\* retry_async is not running, the reminder loop sleeps, no owner message
NoExtras ==
    /\ retry = RetryIdle
    /\ reminder = ReminderIdle
    /\ owner = OwnerIdle

\* no MultiCalendarManager call in progress
MultiIdle ==
    [op |-> "none", pc |-> "idle", calls |-> 0, start |-> 0, end |-> 0, event_id |-> <<>>,
     book_busy |-> <<>>, watch_results |-> <<>>, pending |-> {}, attempted |-> {},
     book_ok |-> FALSE, watch_ok |-> {}, raised |-> FALSE, busy_result |-> <<>>,
     event_result |-> <<>>]

Init ==
    /\ calendars = <<>>
    /\ multi = MultiIdle
    /\ NoMessages
    /\ NoExtras
    /\ bookings = {}
    /\ conversations = [s \in {} |-> NewConversation]
    /\ rules = InitRules
    /\ events = {}
    /\ config \in [dry_run : BOOLEAN, has_tools : BOOLEAN]
    /\ now = 0
    /\ tokens = 0
    /\ started = 0
    /\ proc = [p \in Procs |-> IdleLocal]

Next ==
    \/ \E p \in Procs, s \in Senders, text \in {"/cancel", "/start", "hello"} :
           GuestBegin(p, s, text)
    \/ \E p \in Procs, ok \in BOOLEAN : GuestBusyReturns(p, ok)
    \/ \E p \in Procs : LlmAnswers(p)
    \/ \E p \in Procs : LlmCallsTools(p)
    \/ \E p \in Procs, tc \in ToolCalls : ExecTool(p, tc)
    \/ \E p \in Procs : EndTools(p)
    \/ \E p \in Procs, r \in TextResponses : LlmTextReturns(p, r)
    \/ \E p \in Procs : GuestCreateEventFails(p)
    \/ \E p \in Procs : GuestCreateEventReturns(p)
    \/ \E p \in Procs : GuestNotifyReturns(p)
    \/ \E p \in Procs : GuestFinalReturns(p)
    \/ \E p \in Procs, e \in {GoodEmail, BadEmail}, sv \in {"", "short", "nosuch"},
          t \in StartTimes : McpBegin(p, GoodName, e, sv, t)
    \/ \E p \in Procs, ok \in BOOLEAN : McpBusyReturns(p, ok)
    \/ \E p \in Procs : McpCreateEventFails(p)
    \/ \E p \in Procs : McpCreateEventReturns(p)
    \/ \E p \in Procs : McpNotifyReturns(p)

Spec == Init /\ [][Next]_vars

----------------------------------------------------------------------------
(* The reservation protocol: C1, C7, C4 *)

C4_ReservationSettled ==
    /\ [](\A r \in bookings :
              IsPlaceholder(r) =>
                  \E p \in Procs : /\ proc[p].pc = "mcp_create"
                                   /\ proc[p].reservation_id = r.id
                                   /\ proc[p].slot = RowSlot(r))
    /\ [][\A p \in Procs :
              (proc[p].pc = "mcp_create" /\ proc'[p].pc # "mcp_create")
              => \/ \A r \in bookings' : r.id # proc[p].reservation_id
                 \/ \E r \in bookings' : /\ r.id = proc[p].reservation_id
                                         /\ ~IsPlaceholder(r)
                                         /\ RowSlot(r) = proc[p].slot
                                         /\ r.calendar_event_id # <<>>]_vars

\* C4 witness: a call whose create_event raised has returned its error and
\* the store is empty again
C4_Witness ==
    \E p \in Procs :
        /\ proc[p].pc = "done" /\ proc[p].result = "Failed to create calendar event."
        /\ proc[p].reservation_id > 0
        /\ bookings = {}

----------------------------------------------------------------------------
(* Double booking: C2, C3 *)

\* C2 (as stated): under every interleaving of guest turns that reach
\* confirm_booking and book_consultation calls, no two stored bookings overlap
\* and no two calendar events were created for overlapping intervals.
C2_NoDoubleBooking ==
    /\ \A r1 \in bookings, r2 \in bookings :
           r1 # r2 => ~Overlap(RowSlot(r1), RowSlot(r2))
    /\ \A e1 \in events, e2 \in events : e1 # e2 => ~Overlap(e1, e2)

\* C3 (as stated): whoever awaits create_event, guest turn or book_consultation
\* call, holds a placeholder row for the interval: reserve_slot returned true
\* for it and neither finalize_booking nor release_slot has run yet.
C3_ReservedBeforeCreateEvent ==
    \A p \in Procs :
        proc[p].pc \in {"create_event", "mcp_create"}
        => \E r \in bookings :
               /\ IsPlaceholder(r)
               /\ RowSlot(r) = IF proc[p].kind = "mcp" THEN proc[p].slot
                               ELSE proc[p].conv.selected_slot

----------------------------------------------------------------------------
(* Guest confirmations: C5, C6, C8, C9, C10 *)

\* C5 (as stated): a guest turn in which create_event raised ends with no
\* row added by the failed call, no booking_id in the response metadata and
\* the conversation saved in COLLECTING_INFO with selected_slot cleared.
C5_FailedCreateEventEndsUnbooked ==
    [][\A p \in Procs :
           /\ GuestCreateEventFails(p) => bookings' = bookings /\ events' = events
           /\ ( /\ proc[p].kind \in {"tools", "text"}
                /\ proc[p].pc \notin {"idle", "done"} /\ proc'[p].pc = "done"
                /\ proc'[p].event_failure \in {"last", "earlier"} )
              => /\ proc'[p].metadata = <<>>
                 /\ conversations'[proc[p].sender].state = "collecting_info"
                 /\ conversations'[proc[p].sender].selected_slot_start = <<>>
                 /\ conversations'[proc[p].sender].selected_slot_end = <<>>]_vars

\* C5 (amended): when create_event raises during a guest's confirm_booking the
\* failed call adds no row and no event and leaves the conversation in
\* COLLECTING_INFO with selected_slot cleared and no booking in hand; unless
\* a later confirm_booking of the same turn creates a booking, the turn ends
\* with no booking_id in the metadata and the conversation saved that way.
C5_FailedCreateEventRollsBack ==
    [][\A p \in Procs :
           /\ GuestCreateEventFails(p)
              => /\ bookings' = bookings /\ events' = events
                 /\ proc'[p].pc = "tools"
                    => /\ proc'[p].conv.state = "collecting_info"
                       /\ proc'[p].conv.selected_slot = NoSlot
                       /\ proc'[p].booking = <<>>
           /\ ( /\ proc[p].kind \in {"tools", "text"}
                /\ proc[p].pc \notin {"idle", "done"} /\ proc'[p].pc = "done"
                /\ proc'[p].event_failure = "last" )
              => /\ proc'[p].metadata = <<>>
                 /\ conversations'[proc[p].sender].state = "collecting_info"
                 /\ conversations'[proc[p].sender].selected_slot_start = <<>>
                 /\ conversations'[proc[p].sender].selected_slot_end = <<>>]_vars

\* C5 witness: a guest turn has returned after its create_event raised and no
\* booking was made since; nothing is stored, so the slot can be confirmed anew
C5_Witness ==
    \E p \in Procs :
        /\ proc[p].pc = "done" /\ proc[p].kind \in {"tools", "text"}
        /\ proc[p].event_failure = "last" /\ proc[p].metadata = <<>>
        /\ bookings = {} /\ events = {}
        /\ \E s \in DOMAIN conversations :
               /\ conversations[s].state = "collecting_info"
               /\ conversations[s].selected_slot_start = <<>>

\* C6: a confirm_booking that selects a slot overlapping a stored booking
\* leaves the conversation in COLLECTING_INFO with selected_slot cleared,
\* creates no calendar event and adds no row; the tool loop goes on.
C6_ContendedConfirmRollsBack ==
    [][\A p \in Procs, tc \in ConfirmCalls :
           ( /\ ExecTool(p, tc)
             /\ _execute_guest_tool(tc.name, tc.input, proc[p].conv, proc[p].slots).output
                    = "PENDING_BOOKING"
             /\ \E b \in bookings :
                    Overlap(RowSlot(b), proc[p].slots[tc.input.slot_number]) )
           => /\ proc'[p].pc = "tools"
              /\ proc'[p].conv.state = "collecting_info"
              /\ proc'[p].conv.selected_slot = NoSlot
              /\ proc'[p].tool_output = "Sorry, this slot was just booked"
              /\ proc'[p].booking = proc[p].booking
              /\ events' = events
              /\ bookings' = bookings]_vars

\* C6 witness: a turn with guest info collected has just been refused a slot
\* that a stored booking overlaps
C6_Witness ==
    \E p \in Procs :
        /\ proc[p].pc = "tools"
        /\ proc[p].tool_output = "Sorry, this slot was just booked"
        /\ proc[p].conv.state = "collecting_info"
        /\ proc[p].conv.selected_slot = NoSlot
        /\ proc[p].conv.guest_name # <<>>
        /\ \E k \in 1..Len(proc[p].slots), b \in bookings :
               Overlap(RowSlot(b), proc[p].slots[k])

\* C8: within a guest turn the conversation becomes BOOKED only with the
\* booking of that turn in hand, and a turn gets a booking in hand only in the
\* step that stores its full record, the calendar event having been created
\* for it in that step (in a dry run: no event, event id "dry-run").
C8_BookedOnlyWithBooking ==
    [][\A p \in Procs :
           /\ ( /\ proc[p].kind \in {"tools", "text"}
                /\ proc[p].pc \notin {"idle", "done"}
                /\ proc[p].conv.state # "booked"
                /\ "booked" = IF proc'[p].pc = "done"
                                  THEN conversations'[proc[p].sender].state
                                  ELSE proc'[p].conv.state )
              => /\ proc[p].booking # <<>>
                 /\ RowSlot(Head(proc[p].booking)) = proc[p].conv.selected_slot
                 /\ Head(proc[p].booking).calendar_event_id # <<>>
           /\ (proc'[p].booking # <<>> /\ proc'[p].booking # proc[p].booking)
              => LET b == Head(proc'[p].booking)
                 IN  /\ b \in bookings' /\ b.id \notin Ids(bookings)
                     /\ ~IsPlaceholder(b)
                     /\ b.guest_sender_id = proc[p].sender
                     /\ b.guest_email = proc'[p].conv.guest_email
                     /\ RowSlot(b) = proc'[p].conv.selected_slot
                     /\ IF config.dry_run
                            THEN b.calendar_event_id = <<0>> /\ events' = events
                            ELSE \E e \in events' \ events :
                                     /\ b.calendar_event_id = <<e.event_id>>
                                     /\ e.start = RowSlot(b).start
                                     /\ e.end = RowSlot(b).end]_vars

\* C8 witness: a turn of the tool path outside a dry run has just been set
\* BOOKED, its stored booking carrying the id of a created event
C8_Witness ==
    \E p \in Procs :
        /\ ~config.dry_run
        /\ proc[p].pc = "tools" /\ proc[p].conv.state = "booked"
        /\ proc[p].booking # <<>>
        /\ Head(proc[p].booking) \in bookings
        /\ \E e \in events : Head(proc[p].booking).calendar_event_id = <<e.event_id>>

\* C9: a confirm_booking on a conversation without guest name or email gets
\* the error result and leaves the conversation (state and selected_slot
\* included) and the bookings unchanged and creates no calendar event.
C9_ConfirmNeedsGuestInfo ==
    [][\A p \in Procs, tc \in ConfirmCalls :
           ( /\ ExecTool(p, tc)
             /\ (proc[p].conv.guest_name = <<>> \/ proc[p].conv.guest_email = <<>>) )
           => /\ proc'[p].tool_output = "Error: must call collect_guest_info first"
              /\ proc'[p].conv = proc[p].conv
              /\ proc'[p].pc = "tools"
              /\ proc'[p].booking = proc[p].booking
              /\ bookings' = bookings
              /\ events' = events]_vars

\* C9 witness: a turn offered slots, with no guest info yet, has just had a
\* confirm_booking refused
C9_Witness ==
    \E p \in Procs :
        /\ proc[p].pc = "tools"
        /\ proc[p].tool_output = "Error: must call collect_guest_info first"
        /\ proc[p].conv.guest_name = <<>>
        /\ proc[p].slots # <<>>

\* C10: a collect_guest_info whose name is blank or whose email is empty or
\* malformed gets an error result and leaves the conversation (state,
\* guest_name, guest_email and guest_topic included) unchanged.
C10_CollectRejectsBadInfo ==
    [][\A p \in Procs, tc \in CollectCalls :
           ( /\ ExecTool(p, tc)
             /\ (tc.input.name = BlankName \/ tc.input.email \in {BadEmail, <<>>}) )
           => /\ proc'[p].tool_output \in {"Error: name is required.",
                                           "Error: valid email is required."}
              /\ proc'[p].conv = proc[p].conv
              /\ proc'[p].pc = "tools"
              /\ bookings' = bookings]_vars

\* C10 witness: a turn whose guest gave name and email earlier has just had a
\* collect_guest_info with a bad email refused; the earlier details stand
C10_Witness ==
    \E p \in Procs :
        /\ proc[p].pc = "tools"
        /\ proc[p].tool_output = "Error: valid email is required."
        /\ proc[p].conv.guest_name = GoodName
        /\ proc[p].conv.guest_email = GoodEmail

----------------------------------------------------------------------------
(* Validation of confirm_booking: C11 *)

\* C11 (as stated): a confirm_booking whose slot_number is outside
\* 1..Len(slots), that names more than 2 attendee emails or that names an
\* attendee email which is not wholly of the form local@domain.tld gets an
\* error result and leaves state, selected_slot, attendee_emails and the
\* bookings unchanged.
C11_ConfirmRejectsBadInput ==
    [][\A p \in Procs, tc \in ConfirmCalls :
           ( /\ ExecTool(p, tc)
             /\ \/ tc.input.slot_number \notin 1..Len(proc[p].slots)
                \/ Len(tc.input.attendee_emails) > 2
                \/ \E k \in 1..Len(tc.input.attendee_emails) :
                       ~MatchesEmailUpTo(tc.input.attendee_emails[k],
                                         Len(tc.input.attendee_emails[k])) )
           => /\ proc'[p].tool_output \in {"Error: must call collect_guest_info first",
                                           "Error: max additional attendees allowed.",
                                           "Error: invalid attendee email",
                                           "Error: invalid slot number"}
              /\ proc'[p].conv.state = proc[p].conv.state
              /\ proc'[p].conv.selected_slot = proc[p].conv.selected_slot
              /\ proc'[p].conv.attendee_emails = proc[p].conv.attendee_emails
              /\ bookings' = bookings]_vars

----------------------------------------------------------------------------
(* /cancel: C12 *)

\* C12 (as stated): once the turn that handled /cancel for a sender has
\* completed, and for as long as no later message of that sender is handled,
\* no conversation is stored for the sender, also when another turn of the
\* same sender was in flight while /cancel was handled.
C12_CancelRemovesConversation ==
    \A p \in Procs :
        ( /\ proc[p].pc = "done" /\ proc[p].kind = "cancel"
          /\ \A q \in Procs \ {p} :
                 ~(proc[q].kind \in {"tools", "text"} /\ proc[q].sender = proc[p].sender
                   /\ proc[q].op > proc[p].op) )
        => proc[p].sender \notin DOMAIN conversations

----------------------------------------------------------------------------
(* Confirming again after BOOKED: C13 *)

\* C13: a confirm_booking made from a conversation in state BOOKED for the
\* slot it has booked, the booking row being stored, adds no booking row,
\* creates no calendar event and starts no event creation.
C13_ReconfirmCreatesNothing ==
    [][\A p \in Procs, tc \in ConfirmCalls :
           ( /\ ExecTool(p, tc)
             /\ proc[p].conv.state = "booked"
             /\ tc.input.slot_number \in 1..Len(proc[p].slots)
             /\ proc[p].slots[tc.input.slot_number] = proc[p].conv.selected_slot
             /\ \E b \in bookings :
                    /\ RowSlot(b) = proc[p].conv.selected_slot
                    /\ b.guest_sender_id = proc[p].sender )
           => /\ bookings' = bookings
              /\ events' = events
              /\ tokens' = tokens
              /\ proc'[p].pc = "tools"
              /\ proc'[p].booking = proc[p].booking]_vars

\* C13 witness: a turn that booked a slot has had a further confirm_booking
\* refused, and its booking is still the only row and the only event
C13_Witness ==
    \E p \in Procs :
        /\ ~config.dry_run
        /\ proc[p].pc = "tools"
        /\ proc[p].ntools = 2
        /\ proc[p].tool_output = "Sorry, this slot was just booked"
        /\ proc[p].booking # <<>>
        /\ bookings = {Head(proc[p].booking)}
        /\ Cardinality(events) = 1

----------------------------------------------------------------------------
(* Availability after a booking: C14 *)

\* C14 (as stated): once a booking (a full record) is stored for an interval,
\* the slots that get_available_slots returns to a guest turn begun later
\* contain no slot overlapping that interval.  (With every other coroutine
\* slot unused, the stored bookings were stored before this turn began.)
C14_StoredBookingNotOffered ==
    [][\A p \in Procs, calendar_ok \in BOOLEAN :
           ( /\ GuestBusyReturns(p, calendar_ok)
             /\ \A q \in Procs \ {p} : proc[q].pc = "idle" )
           => \A b \in bookings :
                  ~IsPlaceholder(b)
                  => \A k \in 1..Len(proc'[p].slots) :
                         ~Overlap(proc'[p].slots[k], RowSlot(b))]_vars

----------------------------------------------------------------------------
(* A failed busy query: C18 *)

\* the full booking records of the table
FullRows(table) == {b \in table : ~IsPlaceholder(b)}

\* C18 (as stated): a guest turn or book_consultation call in which the
\* calendar's busy query raised stores no full booking record, neither in the
\* step in which the query fails nor in any later step of that turn or call.
C18_NoBookingAfterFailedBusyQuery ==
    [][\A p \in Procs :
           ( \/ McpBusyReturns(p, FALSE)
             \/ proc[p].busy_failed /\ proc'[p] # proc[p] )
           => FullRows(bookings') \subseteq FullRows(bookings)]_vars

----------------------------------------------------------------------------
(* MultiCalendarManager (calendar/multi_calendar.py) over its providers *)

\* MultiCalendarManager(book_provider, watch_providers): one book calendar
\* and two watch calendars, in list order
watch_providers == <<"w1", "w2">>

Watch == {watch_providers[k] : k \in 1..Len(watch_providers)}

Providers == {"book"} \cup Watch

\* a CalendarProvider as the manager sees it: the busy list it answers a
\* query with, the events it holds, the ids it was asked to delete and the
\* number of events it has created
Provider(busy) == [busy |-> busy, created_events |-> {}, deleted_events |-> {}, issued |-> 0]

\* CalendarProvider.create_event returning: the provider holds a new event
provider_create_event(cal, name, summary, start, end) ==
    [cal EXCEPT !.created_events =
                    @ \cup {[event_id |-> <<name, cal.issued + 1>>, summary |-> summary,
                             start |-> start, end |-> end]},
                !.issued = @ + 1]

\* CalendarProvider.delete_event returning
provider_delete_event(cal, event_id) ==
    [cal EXCEPT !.created_events = {e \in @ : e.event_id # event_id},
                !.deleted_events = @ \cup {event_id}]

\* the busy intervals the providers may hold
BusySlots ==
    {TimeSlot(MinutesPerDay + 9 * 60, MinutesPerDay + 9 * 60 + 30),
     TimeSlot(MinutesPerDay + 10 * 60, MinutesPerDay + 11 * 60)}

BusyLists ==
    {<<>>,
     <<TimeSlot(MinutesPerDay + 9 * 60, MinutesPerDay + 9 * 60 + 30)>>,
     <<TimeSlot(MinutesPerDay + 10 * 60, MinutesPerDay + 11 * 60),
       TimeSlot(MinutesPerDay + 9 * 60, MinutesPerDay + 9 * 60 + 30)>>}

\* number of occurrences of x in the list s
Count(s, x) == Cardinality({i \in 1..Len(s) : s[i] = x})

\* list.sort(key=lambda s: s.start): stable, by start
RECURSIVE SortByStart(_)
SortByStart(s) ==
    IF s = <<>> THEN <<>>
    ELSE LET t == SortByStart(SubSeq(s, 1, Len(s) - 1))
             x == s[Len(s)]
             k == Cardinality({i \in 1..Len(t) : t[i].start <= x.start})
         IN  SubSeq(t, 1, k) \o <<x>> \o SubSeq(t, k + 1, Len(t))

\* the flattening of watch_results in the order of watch_providers
RECURSIVE Extend(_, _, _)
Extend(all_busy, watch_results, k) ==
    IF k > Len(watch_providers) THEN all_busy
    ELSE Extend(all_busy \o watch_results[watch_providers[k]], watch_results, k + 1)

\* fault: a failed watch query contributes the calendar's busy list
_safe_get_busyAll(busy, ok) == busy

\* _safe_get_busy: the watch calendar's answer, [] when its query raised
_safe_get_busy(busy, ok) == IF ok THEN busy ELSE <<>>

\* fault: a failed blocker creation abandons the other watch calendars
StillPendingNone(pending, w, ok) == IF ok THEN pending \ {w} ELSE {}

\* asyncio.gather over the watch providers: each coroutine runs to its end
\* whatever the others do
StillPending(pending, w, ok) == pending \ {w}

\* fault: delete_event goes to every provider
delete_eventEverywhere(cals, event_id) ==
    [p \in DOMAIN cals |-> provider_delete_event(cals[p], event_id)]

\* MultiCalendarManager.delete_event once the book provider has returned
delete_event(cals, event_id) ==
    [cals EXCEPT !["book"] = provider_delete_event(@, event_id)]

\* fault: the exception of the call is lost
MultiDoneLosesError(l) == [l EXCEPT !.pc = "done", !.pending = {}, !.raised = FALSE]

\* a call ends: it has returned or raised
MultiDone(l) == [l EXCEPT !.pc = "done", !.pending = {}]

\* get_busy_times is called, up to await self.book_provider.get_busy_times
MultiGetBusyBegin ==
    /\ multi.pc \in {"idle", "done"}
    /\ multi.calls < MaxCalls
    /\ multi' = [MultiIdle EXCEPT !.op = "get_busy_times", !.pc = "book",
                                  !.calls = multi.calls + 1]
    /\ UNCHANGED <<sysvars, calendars>>

\* the book provider's query returned or raised (the exception propagates);
\* then the watch queries are gathered
BookBusyReturns(ok) ==
    /\ multi.op = "get_busy_times" /\ multi.pc = "book"
    /\ multi' = IF ok
                    THEN [multi EXCEPT !.pc = "watch", !.book_ok = TRUE,
                                       !.book_busy = calendars["book"].busy,
                                       !.watch_results = [w \in Watch |-> <<>>],
                                       !.pending = Watch]
                    ELSE MultiDone([multi EXCEPT !.raised = TRUE])
    /\ UNCHANGED <<sysvars, calendars>>

\* _safe_get_busy of one watch provider ends; after the last one the results
\* are appended to the book busy list, sorted and returned
WatchBusyReturns(w, ok) ==
    /\ multi.op = "get_busy_times" /\ multi.pc = "watch"
    /\ w \in multi.pending
    /\ LET l == [multi EXCEPT !.watch_results[w] = _safe_get_busy(calendars[w].busy, ok),
                              !.watch_ok = IF ok THEN @ \cup {w} ELSE @,
                              !.attempted = @ \cup {w},
                              !.pending = StillPending(@, w, ok)]
       IN  multi' = IF l.pending # {} THEN l
                    ELSE MultiDone([l EXCEPT !.busy_result =
                             SortByStart(Extend(l.book_busy, l.watch_results, 1))])
    /\ UNCHANGED <<sysvars, calendars>>

\* create_event is called, up to await self.book_provider.create_event
MultiCreateBegin(slot) ==
    /\ multi.pc \in {"idle", "done"}
    /\ multi.calls < MaxCalls
    /\ multi' = [MultiIdle EXCEPT !.op = "create_event", !.pc = "book",
                                  !.calls = multi.calls + 1,
                                  !.start = slot.start, !.end = slot.end]
    /\ UNCHANGED <<sysvars, calendars>>

\* the book provider's create_event returned the event or raised (the
\* exception propagates); then the blocker creations are gathered
BookCreateReturns(ok) ==
    /\ multi.op = "create_event" /\ multi.pc = "book"
    /\ IF ok
           THEN /\ calendars' = [calendars EXCEPT !["book"] =
                       provider_create_event(@, "book", "event", multi.start, multi.end)]
                /\ multi' = [multi EXCEPT
                       !.pc = "watch", !.book_ok = TRUE, !.pending = Watch,
                       !.event_result = <<[event_id |-> <<"book", calendars["book"].issued + 1>>,
                                           calendar_name |-> "primary"]>>]
           ELSE /\ multi' = MultiDone([multi EXCEPT !.raised = TRUE])
                /\ UNCHANGED calendars
    /\ UNCHANGED sysvars

\* _safe_create_blocker of one watch provider ends, its exception swallowed;
\* after the last one the book calendar's event is returned
WatchCreateReturns(w, ok) ==
    /\ multi.op = "create_event" /\ multi.pc = "watch"
    /\ w \in multi.pending
    /\ calendars' = IF ok
                        THEN [calendars EXCEPT ![w] =
                                 provider_create_event(@, w, "blocker", multi.start, multi.end)]
                        ELSE calendars
    /\ LET l == [multi EXCEPT !.watch_ok = IF ok THEN @ \cup {w} ELSE @,
                              !.attempted = @ \cup {w},
                              !.pending = StillPending(@, w, ok)]
       IN  multi' = IF l.pending # {} THEN l ELSE MultiDone(l)
    /\ UNCHANGED sysvars

\* delete_event is called, up to await self.book_provider.delete_event
MultiDeleteBegin(event_id) ==
    /\ multi.pc \in {"idle", "done"}
    /\ multi.calls < MaxCalls
    /\ multi' = [MultiIdle EXCEPT !.op = "delete_event", !.pc = "book",
                                  !.calls = multi.calls + 1, !.event_id = event_id]
    /\ UNCHANGED <<sysvars, calendars>>

\* the book provider's delete_event returned or raised; delete_event ends
BookDeleteReturns(ok) ==
    /\ multi.op = "delete_event" /\ multi.pc = "book"
    /\ calendars' = IF ok THEN delete_event(calendars, multi.event_id) ELSE calendars
    /\ multi' = MultiDone([multi EXCEPT !.book_ok = ok, !.raised = ~ok])
    /\ UNCHANGED sysvars

\* a manager over three providers with some busy lists; the engine is at rest
MultiCalendarInit ==
    /\ calendars \in [Providers -> {Provider(b) : b \in BusyLists}]
    /\ multi = MultiIdle
    /\ NoMessages
    /\ NoExtras
    /\ bookings = {}
    /\ conversations = [s \in {} |-> NewConversation]
    /\ rules = InitRules
    /\ events = {}
    /\ config = [dry_run |-> FALSE, has_tools |-> TRUE]
    /\ now = 0
    /\ tokens = 0
    /\ started = 0
    /\ proc = [p \in Procs |-> IdleLocal]

MultiCalendarNext ==
    \/ MultiGetBusyBegin
    \/ \E ok \in BOOLEAN : BookBusyReturns(ok)
    \/ \E w \in Watch, ok \in BOOLEAN : WatchBusyReturns(w, ok)
    \/ \E slot \in BusySlots : MultiCreateBegin(slot)
    \/ \E ok \in BOOLEAN : BookCreateReturns(ok)
    \/ \E w \in Watch, ok \in BOOLEAN : WatchCreateReturns(w, ok)
    \/ \E event_id \in {<<"book", 1>>, <<"book", 2>>} : MultiDeleteBegin(event_id)
    \/ \E ok \in BOOLEAN : BookDeleteReturns(ok)

MultiCalendarSpec == MultiCalendarInit /\ [][MultiCalendarNext]_vars

----------------------------------------------------------------------------
(* MultiCalendarManager: C15, C16, C17 *)

\* C15: get_busy_times raises exactly when the book calendar's query fails;
\* when it does not, the list returned holds the book calendar's busy
\* intervals and those of exactly the watch calendars whose query succeeded,
\* each as often as its calendar answered it.
C15_BusyOfBookAndSucceededWatch ==
    (multi.op = "get_busy_times" /\ multi.pc = "done")
    => /\ multi.raised <=> ~multi.book_ok
       /\ multi.book_ok
          => \A x \in BusySlots :
                 Count(multi.busy_result, x)
                     = Count(calendars["book"].busy, x)
                       + Count(IF "w1" \in multi.watch_ok THEN calendars["w1"].busy ELSE <<>>, x)
                       + Count(IF "w2" \in multi.watch_ok THEN calendars["w2"].busy ELSE <<>>, x)

\* C15 witness: the book query succeeded, one watch query failed and one
\* succeeded, every calendar holding busy intervals, and the call returned
C15_Witness ==
    /\ multi.op = "get_busy_times" /\ multi.pc = "done"
    /\ ~multi.raised
    /\ multi.watch_ok = {"w2"} /\ multi.attempted = Watch
    /\ \A p \in Providers : Len(calendars[p].busy) = 2
    /\ Len(multi.busy_result) = 4

\* C16: when the book calendar's create_event succeeds, create_event does not
\* raise and returns that event, whichever blocker creations fail, and every
\* watch calendar has had its blocker creation attempted.
C16_BookEventReturned ==
    (multi.op = "create_event" /\ multi.pc = "done" /\ multi.book_ok)
    => /\ ~multi.raised
       /\ Len(multi.event_result) = 1
       /\ \E e \in calendars["book"].created_events :
              /\ e.event_id = multi.event_result[1].event_id
              /\ e.start = multi.start /\ e.end = multi.end
       /\ multi.attempted = Watch
       /\ \A w \in multi.watch_ok :
              \E e \in calendars[w].created_events :
                  e.summary = "blocker" /\ e.start = multi.start /\ e.end = multi.end

\* C16 witness: the first watch calendar's blocker failed, the second one's
\* was created, and the book calendar's event was returned
C16_Witness ==
    /\ multi.op = "create_event" /\ multi.pc = "done"
    /\ multi.book_ok /\ ~multi.raised
    /\ multi.watch_ok = {"w2"}
    /\ calendars["w1"].created_events = {}
    /\ calendars["w2"].created_events # {}
    /\ Len(multi.event_result) = 1

\* C17: delete_event calls delete on the book calendar only: no step of it
\* changes a watch calendar (its events, its record of delete calls), and a
\* successful one has handed the id to the book calendar.
C17_DeleteOnlyInBook ==
    [][\A ok \in BOOLEAN :
           BookDeleteReturns(ok)
           => /\ \A w \in Watch : calendars'[w] = calendars[w]
              /\ ok => multi.event_id \in calendars'["book"].deleted_events]_vars

\* C17 witness: an event was created with a blocker in each watch calendar
\* and then deleted: it is gone from the book calendar, the blockers remain
C17_Witness ==
    /\ multi.op = "delete_event" /\ multi.pc = "done" /\ ~multi.raised
    /\ multi.event_id \in calendars["book"].deleted_events
    /\ calendars["book"].issued = 1
    /\ calendars["book"].created_events = {}
    /\ \A w \in Watch : \E e \in calendars[w].created_events : e.summary = "blocker"
    /\ \A w \in Watch : calendars[w].deleted_events = {}

----------------------------------------------------------------------------
(* get_available_slots over varied rule sets and calendars *)

\* the rules the owner may have added (add_rule / block_time check nothing):
\* two open ranges on Tuesdays that overlap, an open range on the date of
\* day 1 (a Tuesday), a block of that date from 09:00 to 23:59, a block of
\* the first half hour of Tuesdays, a block of that date from 10:30 to 11:00,
\* and two open ranges on Mondays, one inside the other
RulePool ==
    {AvailabilityRule("tuesday", <<>>, <<9, 0>>, <<10, 15>>, FALSE),
     AvailabilityRule("tuesday", <<>>, <<10, 0>>, <<11, 0>>, FALSE),
     AvailabilityRule("", <<1>>, <<9, 0>>, <<10, 15>>, FALSE),
     AvailabilityRule("", <<1>>, <<9, 0>>, <<23, 59>>, TRUE),
     AvailabilityRule("tuesday", <<>>, <<9, 0>>, <<9, 30>>, TRUE),
     AvailabilityRule("", <<1>>, <<10, 30>>, <<11, 0>>, TRUE),
     AvailabilityRule("monday", <<>>, <<9, 0>>, <<12, 0>>, FALSE),
     AvailabilityRule("monday", <<>>, <<10, 0>>, <<11, 0>>, FALSE)}

\* the values of day_of_week in the order of their text
DayOrder == <<"", "friday", "monday", "saturday", "sunday", "thursday", "tuesday", "wednesday">>

DayRank(day) == CHOOSE k \in 1..Len(DayOrder) : DayOrder[k] = day

\* ORDER BY day_of_week, specific_date, start_time: a may come before b
RuleOrder(a, b) ==
    \/ DayRank(a.day_of_week) < DayRank(b.day_of_week)
    \/ /\ a.day_of_week = b.day_of_week
       /\ \/ a.specific_date = <<>> /\ b.specific_date # <<>>
          \/ /\ a.specific_date # <<>> /\ b.specific_date # <<>>
             /\ a.specific_date[1] < b.specific_date[1]
          \/ /\ a.specific_date = b.specific_date
             /\ replace_hm(0, a.start_time) <= replace_hm(0, b.start_time)

\* the tables of up to MaxRules different rules as get_availability_rules
\* returns them (rules with equal keys in either order)
RuleSets ==
    UNION {{rs \in [1..n -> RulePool] :
                \A i, j \in 1..n : /\ rs[i] = rs[j] => i = j
                                   /\ i < j => RuleOrder(rs[i], rs[j])} :
               n \in 0..MaxRules}

\* events of the owner's own making in the book calendar, both on day 1
OwnerEvents ==
    {CalendarEvent(0, TimeSlot(MinutesPerDay + 9 * 60, MinutesPerDay + 9 * 60 + 30)),
     CalendarEvent(0, TimeSlot(MinutesPerDay + 10 * 60 + 15, MinutesPerDay + 10 * 60 + 45))}

\* the slots of a list that start on the day beginning at current_day
SlotsOn(slots, current_day) ==
    SelectSeq(slots, LAMBDA slot : /\ current_day <= slot.start
                                   /\ slot.start < current_day + MinutesPerDay)

\* an empty store but for the rules, a calendar with some events, a clock at
\* Monday 00:00 or Tuesday 06:00
AvailabilityInit ==
    /\ calendars = <<>>
    /\ multi = MultiIdle
    /\ NoMessages
    /\ NoExtras
    /\ bookings = {}
    /\ conversations = [s \in {} |-> NewConversation]
    /\ rules \in RuleSets
    /\ events \in SUBSET OwnerEvents
    /\ config = [dry_run |-> FALSE, has_tools |-> TRUE]
    /\ now \in {0, MinutesPerDay + 6 * 60}
    /\ tokens = 0
    /\ started = 0
    /\ proc = [p \in Procs |-> IdleLocal]

\* guest turns up to the model's answer: get_available_slots and no booking
AvailabilityNext ==
    \/ \E p \in Procs, s \in Senders, text \in {"/start", "hello"} : GuestBegin(p, s, text)
    \/ \E p \in Procs, ok \in BOOLEAN : GuestBusyReturns(p, ok)
    \/ \E p \in Procs : LlmAnswers(p)

AvailabilitySpec == AvailabilityInit /\ [][AvailabilityNext]_vars

----------------------------------------------------------------------------
(* The slots of get_available_slots: C19, C20 *)

\* C19 (as stated): in the list get_available_slots returned to a turn no two
\* different slots overlap, and when the busy query succeeded no slot overlaps
\* a busy interval the calendar answered.
C19_SlotsDisjointAndFree ==
    \A p \in Procs :
        proc[p].pc = "llm"
        => /\ \A i, j \in 1..Len(proc[p].slots) :
                  proc[p].slots[i] # proc[p].slots[j]
                  => ~Overlap(proc[p].slots[i], proc[p].slots[j])
           /\ ~proc[p].busy_failed
              => \A i \in 1..Len(proc[p].slots) :
                     \A b \in get_busy_times(events) : ~Overlap(proc[p].slots[i], b)

\* C20: with an open recurring rule for Tuesdays and a blocked rule for the
\* date of day 1 (a Tuesday) that covers every open range of that day, the
\* list returned holds no slot on day 1, while it holds slots on day 8, the
\* next Tuesday (which no block covers and on which the calendar is free).
C20_BlockedDateHasNoSlots ==
    \A p \in Procs :
        ( /\ proc[p].pc = "llm"
          /\ \E k \in 1..Len(rules) : ~rules[k].is_blocked /\ rules[k].day_of_week = "tuesday"
          /\ \E k \in 1..Len(rules) :
                 /\ rules[k].is_blocked /\ rules[k].day_of_week = ""
                 /\ rules[k].specific_date = <<1>>
                 /\ \A j \in 1..Len(rules) :
                        (~rules[j].is_blocked /\ (rules[j].day_of_week = "tuesday"
                                                  \/ rules[j].specific_date = <<1>>))
                        => /\ replace_hm(0, rules[k].start_time)
                                  <= replace_hm(0, rules[j].start_time)
                           /\ replace_hm(0, rules[j].end_time)
                                  <= replace_hm(0, rules[k].end_time) )
        => /\ SlotsOn(proc[p].slots, MinutesPerDay) = <<>>
           /\ SlotsOn(proc[p].slots, 8 * MinutesPerDay) # <<>>

\* C20 witness: a turn has been answered under the Tuesday rule 09:00-10:15
\* and the block of day 1, with no slot on day 1 and two on day 8
C20_Witness ==
    \E p \in Procs :
        /\ proc[p].pc = "llm"
        /\ ~proc[p].busy_failed
        /\ rules = <<AvailabilityRule("", <<1>>, <<9, 0>>, <<23, 59>>, TRUE),
                     AvailabilityRule("tuesday", <<>>, <<9, 0>>, <<10, 15>>, FALSE)>>
        /\ now = 0
        /\ SlotsOn(proc[p].slots, MinutesPerDay) = <<>>
        /\ Len(SlotsOn(proc[p].slots, 8 * MinutesPerDay)) = 2

----------------------------------------------------------------------------
(* Rule resolution, tiling, order and degradation: C21, C22, C23, C29, C30 *)

\* the days of the window of a query made at time from
WindowDays(from) ==
    {d \in 0..(max_days_ahead + 2) :
        /\ (min_start(from) \div MinutesPerDay) <= d
        /\ d * MinutesPerDay < end_date(from)}

\* the elements of a list
Range(s) == {s[i] : i \in 1..Len(s)}

\* C21 (as stated): on a date that has a blocked rule of its own the
\* recurring blocked rules of the weekday are not applied: the slots returned
\* for that date are those left by the date's own blocked rules (and by the
\* busy times when the busy query succeeded).
C21_DateBlocksReplaceWeekdayBlocks ==
    \A p \in Procs :
        proc[p].pc = "llm"
        => \A d \in WindowDays(now) :
               blocked_specific(rules, date_str(d * MinutesPerDay)) # <<>>
               => SlotsOn(proc[p].slots, d * MinutesPerDay)
                      = get_available_slots(
                            DaySlots(day_rules(rules, d * MinutesPerDay), d * MinutesPerDay,
                                     blocked_specific(rules, date_str(d * MinutesPerDay)),
                                     min_start(now)),
                            events, ~proc[p].busy_failed)

\* the slots the claim gives an open range [S, E) of the day at current_day
TiledSlots(current_day, rule) ==
    LET S == replace_hm(current_day, rule.start_time)
        E == replace_hm(current_day, rule.end_time)
        step == meeting_duration_minutes + buffer_minutes
    IN  {TimeSlot(S + k * step, S + k * step + meeting_duration_minutes) :
            k \in {j \in 0..(MinutesPerDay \div step) :
                      S + j * step + meeting_duration_minutes <= E}}

\* C22: on a day wholly after min_start that carries no blocked rule, the
\* slots generated from the rules are, for each open range [S, E) of the day,
\* exactly the intervals [S + k*45, S + k*45 + 30) with k >= 0 that end by E;
\* Monday 09:00-12:00 alone gives 09:00, 09:45, 10:30 and 11:15, in this order.
C22_SlotsTileTheRange ==
    \A p \in Procs :
        (proc[p].pc = "llm" /\ proc[p].busy_failed)
        => /\ \A d \in WindowDays(now) :
                  ( /\ d * MinutesPerDay >= min_start(now)
                    /\ day_blocked(rules, d * MinutesPerDay) = <<>> )
                  => Range(SlotsOn(proc[p].slots, d * MinutesPerDay))
                         = UNION {TiledSlots(d * MinutesPerDay, r) :
                                      r \in Range(day_rules(rules, d * MinutesPerDay))}
           /\ rules = <<AvailabilityRule("monday", <<>>, <<9, 0>>, <<12, 0>>, FALSE)>>
              => SlotsOn(proc[p].slots, 7 * MinutesPerDay)
                     = <<TimeSlot(7 * MinutesPerDay + 540, 7 * MinutesPerDay + 570),
                         TimeSlot(7 * MinutesPerDay + 585, 7 * MinutesPerDay + 615),
                         TimeSlot(7 * MinutesPerDay + 630, 7 * MinutesPerDay + 660),
                         TimeSlot(7 * MinutesPerDay + 675, 7 * MinutesPerDay + 705)>>

\* C22 witness: a turn was given the slots of the rule Monday 09:00-12:00
\* alone: four on the Monday of day 7
C22_Witness ==
    \E p \in Procs :
        /\ proc[p].pc = "llm" /\ proc[p].busy_failed
        /\ rules = <<AvailabilityRule("monday", <<>>, <<9, 0>>, <<12, 0>>, FALSE)>>
        /\ Len(SlotsOn(proc[p].slots, 7 * MinutesPerDay)) = 4

\* C23 (as stated): the list get_available_slots returned to a turn is in
\* non-decreasing order of slot start.
C23_SlotsOrderedByStart ==
    \A p \in Procs :
        proc[p].pc = "llm"
        => \A i, j \in 1..Len(proc[p].slots) :
               i < j => proc[p].slots[i].start <= proc[p].slots[j].start

\* C29: on a date that has an open rule of its own every slot returned is a
\* tile of one of the date's own open rules, whatever recurring open rules
\* the weekday has.
C29_DateRulesReplaceWeekdayRules ==
    \A p \in Procs :
        proc[p].pc = "llm"
        => \A d \in WindowDays(now) :
               specific(rules, date_str(d * MinutesPerDay)) # <<>>
               => \A slot \in Range(SlotsOn(proc[p].slots, d * MinutesPerDay)) :
                      \E r \in Range(specific(rules, date_str(d * MinutesPerDay))) :
                          slot \in TiledSlots(d * MinutesPerDay, r)

\* C29 witness: with the Tuesday rule 10:00-11:00 and the rule 09:00-10:15 of
\* day 1, a turn was given 09:00 and 09:45 on day 1 and 10:00 on day 8
C29_Witness ==
    \E p \in Procs :
        /\ proc[p].pc = "llm" /\ proc[p].busy_failed /\ now = 0
        /\ rules = <<AvailabilityRule("", <<1>>, <<9, 0>>, <<10, 15>>, FALSE),
                     AvailabilityRule("tuesday", <<>>, <<10, 0>>, <<11, 0>>, FALSE)>>
        /\ Len(SlotsOn(proc[p].slots, MinutesPerDay)) = 2
        /\ SlotsOn(proc[p].slots, 8 * MinutesPerDay)
               = <<TimeSlot(8 * MinutesPerDay + 600, 8 * MinutesPerDay + 630)>>

\* C30: when the busy query of a turn's get_available_slots raises, the call
\* returns (the turn goes on to the model) with exactly the slots generated
\* from the rules between min_start and end_date.
C30_FailedBusyQueryGivesRuleSlots ==
    [][\A p \in Procs :
           GuestBusyReturns(p, FALSE)
           => /\ proc'[p].pc = "llm"
              /\ proc'[p].slots
                     = _generate_rule_slots(rules, min_start(now), end_date(now))]_vars

\* C30 witness: the busy query raised and the turn holds a slot that an
\* event of the calendar overlaps
C30_Witness ==
    \E p \in Procs :
        /\ proc[p].pc = "llm" /\ proc[p].busy_failed
        /\ \E slot \in Range(proc[p].slots), e \in events :
               Overlap(slot, TimeSlot(e.start, e.end))

----------------------------------------------------------------------------
(* Minimum notice of a booked slot: C24 *)

\* Tuesday 06:00 of day 1; the owner has opened that day from 09:00 to 12:00
NoticeInit ==
    /\ calendars = <<>>
    /\ multi = MultiIdle
    /\ NoMessages
    /\ NoExtras
    /\ bookings = {}
    /\ conversations = [s \in {} |-> NewConversation]
    /\ rules = <<AvailabilityRule("", <<1>>, <<9, 0>>, <<12, 0>>, FALSE)>>
    /\ events = {}
    /\ config \in [dry_run : BOOLEAN, has_tools : {TRUE}]
    /\ now = MinutesPerDay + 6 * 60
    /\ tokens = 0
    /\ started = 0
    /\ proc = [p \in Procs |-> IdleLocal]

\* guest turns of the tool-use path and book_consultation calls
NoticeNext ==
    \/ \E p \in Procs, s \in Senders, text \in {"/cancel", "/start", "hello"} :
           GuestBegin(p, s, text)
    \/ \E p \in Procs, ok \in BOOLEAN : GuestBusyReturns(p, ok)
    \/ \E p \in Procs : LlmAnswers(p)
    \/ \E p \in Procs : LlmCallsTools(p)
    \/ \E p \in Procs, tc \in ToolCalls : ExecTool(p, tc)
    \/ \E p \in Procs : EndTools(p)
    \/ \E p \in Procs : GuestCreateEventFails(p)
    \/ \E p \in Procs : GuestCreateEventReturns(p)
    \/ \E p \in Procs : GuestNotifyReturns(p)
    \/ \E p \in Procs : GuestFinalReturns(p)
    \/ \E p \in Procs, sv \in {"", "short"}, t \in StartTimes :
           McpBegin(p, GoodName, GoodEmail, sv, t)
    \/ \E p \in Procs, ok \in BOOLEAN : McpBusyReturns(p, ok)
    \/ \E p \in Procs : McpCreateEventFails(p)
    \/ \E p \in Procs : McpCreateEventReturns(p)
    \/ \E p \in Procs : McpNotifyReturns(p)

NoticeSpec == NoticeInit /\ [][NoticeNext]_vars

\* C24 (as stated): every booking stored by a guest confirm_booking or by
\* book_consultation is for a slot that starts at or after the current time
\* plus min_notice.
C24_BookedSlotsRespectNotice ==
    \A b \in FullRows(bookings) : RowSlot(b).start >= now + min_notice_hours * 60

----------------------------------------------------------------------------
(* The cap of the tool-use loop: C25 *)

\* one sender's turns on a store with tool use, one at a time
LoopInit ==
    /\ calendars = <<>>
    /\ multi = MultiIdle
    /\ NoMessages
    /\ NoExtras
    /\ bookings = {}
    /\ conversations = [s \in {} |-> NewConversation]
    /\ rules = InitRules
    /\ events = {}
    /\ config \in [dry_run : BOOLEAN, has_tools : {TRUE}]
    /\ now = 0
    /\ tokens = 0
    /\ started = 0
    /\ proc = [p \in Procs |-> IdleLocal]

\* the model may answer every chat_with_tools of the loop with tool calls
LoopNext ==
    \/ \E text \in {"/start", "hello"} : GuestBegin("p1", <<"g1">>, text)
    \/ \E ok \in BOOLEAN : GuestBusyReturns("p1", ok)
    \/ LlmAnswers("p1")
    \/ LlmCallsToolsUpTo("p1", MAX_TOOL_ITERATIONS)
    \/ \E tc \in ToolCalls : ExecTool("p1", tc)
    \/ EndTools("p1")
    \/ GuestCreateEventFails("p1")
    \/ GuestCreateEventReturns("p1")
    \/ GuestNotifyReturns("p1")
    \/ GuestFinalReturns("p1")

LoopSpec == LoopInit /\ [][LoopNext]_vars

\* the chat_with_tools calls a turn of the tool-use path has made so far, the
\* one it is awaiting included: one per pass of the loop begun, and the final
\* one after a booking
ModelCalls(l) ==
    IF l.pc \in {"llm", "tools", "create_event", "notify"} THEN l.iter + 1
    ELSE IF l.pc = "final" THEN l.iter + 2
    ELSE 0

\* C25 (as stated): a guest turn invokes the model at most 5 times, whatever
\* the model answers.
C25_AtMostFiveModelCalls ==
    \A p \in Procs :
        proc[p].kind = "tools" => ModelCalls(proc[p]) <= MAX_TOOL_ITERATIONS

----------------------------------------------------------------------------
(* Guest input validation (engine.py): C26, C27, C28 *)

MAX_MESSAGE_LENGTH == 300
RATE_LIMIT_MESSAGES == 8
RATE_LIMIT_WINDOW == 60

\* an IncomingMessage from a guest: what its stripped text starts with (a
\* command, another text behind a slash, or a plain text), the length of the
\* stripped text, and whether one of INJECTION_PATTERNS is found in it
Message(text, len, injection) == [text |-> text, len |-> len, injection |-> injection]

Messages ==
    {Message("/start", 6, FALSE), Message("/x", 5, TRUE),
     Message("hello", MAX_MESSAGE_LENGTH, FALSE), Message("hello", 5, TRUE),
     Message("hello", MAX_MESSAGE_LENGTH + 1, FALSE)}

\* text.startswith("/")
startswith_slash(msg) == msg.text \in {"/cancel", "/start", "/x"}

\* [t for t in history if now - t < RATE_LIMIT_WINDOW]
InWindow(history, t) == SelectSeq(history, LAMBDA x : t - x < RATE_LIMIT_WINDOW)

\* SchedulingEngine._validate_guest_input at time t for a sender with this
\* history: the rejection text ("" for None) and the list kept for the sender
_validate_guest_input(msg, history, t) ==
    IF startswith_slash(msg) THEN [rejection |-> "", history |-> history]
    ELSE IF msg.len > MAX_MESSAGE_LENGTH
        THEN [rejection |-> "Please keep your message under 300 characters.",
              history |-> history]
    ELSE IF Len(InWindow(history, t)) >= RATE_LIMIT_MESSAGES
        THEN [rejection |-> "You're sending messages too fast. Please wait a minute.",
              history |-> history]
    ELSE [rejection |-> IF msg.injection
                            THEN "I can only help with scheduling meetings."
                            ELSE "",
          history |-> Append(InWindow(history, t), t)]

\* fault: the rejection is not looked at
handle_messageIgnoresRejection(rejection) == "_handle_guest_message"

\* handle_message for a non-owner sender, after validation: return the
\* rejection, or go on to _handle_guest_message
handle_message(rejection) ==
    IF rejection # "" THEN "return" ELSE "_handle_guest_message"

\* handle_message for a non-owner sender up to its first await
HandleMessage(p, sender_id, msg) ==
    LET v == _validate_guest_input(msg, _rate_limiter[sender_id], clock)
    IN  /\ _rate_limiter' = [_rate_limiter EXCEPT ![sender_id] = v.history]
        /\ message' = [message EXCEPT ![p] = msg]
        /\ passed' = [passed EXCEPT ![sender_id] =
               IF v.rejection = "" THEN Append(InWindow(@, clock), clock) ELSE @]
        /\ UNCHANGED <<clock, extvars>>
        /\ IF handle_message(v.rejection) = "return"
               THEN /\ proc[p].pc \in {"idle", "done"}
                    /\ started < MaxMessages
                    /\ started' = started + 1
                    /\ proc' = [proc EXCEPT ![p] =
                           Returned([IdleLocal EXCEPT !.kind = "rejected", !.op = started + 1,
                                                      !.sender = sender_id])]
                    /\ UNCHANGED <<bookings, conversations, rules, events, config, calvars,
                                   now, tokens>>
               ELSE BeginTurn(p, sender_id, msg.text, MaxMessages)

\* a minute passes
Tick ==
    /\ clock < MaxClock
    /\ clock' = clock + RATE_LIMIT_WINDOW
    /\ UNCHANGED <<bookings, conversations, rules, events, config, now, tokens, started, proc,
                   calvars, _rate_limiter, message, passed, extvars>>

ValidationInit ==
    /\ calendars = <<>>
    /\ multi = MultiIdle
    /\ NoMessages
    /\ NoExtras
    /\ bookings = {}
    /\ conversations = [s \in {} |-> NewConversation]
    /\ rules = InitRules
    /\ events = {}
    /\ config = [dry_run |-> FALSE, has_tools |-> TRUE]
    /\ now = 0
    /\ tokens = 0
    /\ started = 0
    /\ proc = [p \in Procs |-> IdleLocal]

\* one guest sends messages of every kind and another one harmless messages,
\* one after the other; the model answers with text
ValidationNext ==
    \/ \E msg \in Messages : HandleMessage("p1", <<"g1">>, msg)
    \/ HandleMessage("p1", <<"g2">>, Message("hello", MAX_MESSAGE_LENGTH, FALSE))
    \/ GuestBusyReturns("p1", TRUE)
    \/ LlmAnswers("p1")
    \/ Tick

ValidationSpec == ValidationInit /\ [][ValidationNext]_vars

\* C26: a handle_message call whose validation rejects the message returns
\* at once, without a turn that would invoke the model, and leaves the stored
\* conversations, the bookings and the availability rules as they were.
C26_RejectedMessageChangesNothing ==
    [][\A p \in Procs, s \in Senders, msg \in Messages :
           ( /\ HandleMessage(p, s, msg)
             /\ _validate_guest_input(msg, _rate_limiter[s], clock).rejection # "" )
           => /\ proc'[p].pc = "done" /\ proc'[p].kind = "rejected"
              /\ UNCHANGED <<conversations, bookings, rules>>]_vars

\* C26 witness: a sender with a stored conversation had a short, harmless
\* message rejected for the rate limit
C26_Witness ==
    \E p \in Procs :
        /\ proc[p].pc = "done" /\ proc[p].kind = "rejected"
        /\ message[p] = Message("hello", MAX_MESSAGE_LENGTH, FALSE)
        /\ proc[p].sender \in DOMAIN conversations

\* C27 (as stated): the model is never invoked with a message that is longer
\* than 300 characters or matches an injection pattern.
C27_NoModelCallForBadMessage ==
    \A p \in Procs :
        proc[p].pc = "llm"
        => ~(message[p].len > MAX_MESSAGE_LENGTH \/ message[p].injection)

\* C28 (as stated): no sender has more than 8 messages that passed validation
\* within 60 seconds.
C28_AtMostEightPassPerWindow ==
    \A s \in Senders : Len(InWindow(passed[s], clock)) <= RATE_LIMIT_MESSAGES

----------------------------------------------------------------------------
(* State changes of a guest turn and bookings per turn: C31, C39 *)

\* C31 (as stated): a guest turn in which the model returns only free text
\* (no tool call, no booking tag) stores the conversation with the state it
\* had when the turn loaded it.
C31_FreeTextKeepsState ==
    [][\A p \in Procs :
           ( \/ LlmAnswers(p)
             \/ \E r \in TextResponses : r.tag = "none" /\ LlmTextReturns(p, r) )
           => conversations'[proc[p].sender].state = proc[p].conv.state]_vars

\* C39 (as stated): a guest turn that has created a booking in the tool calls
\* of a response creates no further booking row and no further calendar event
\* in that turn.
C39_OneBookingPerTurn ==
    [][\A p \in Procs :
           ( /\ (\E tc \in ToolCalls : ExecTool(p, tc)) \/ GuestCreateEventReturns(p)
             /\ (bookings' # bookings \/ events' # events) )
           => proc[p].booking = <<>>]_vars

----------------------------------------------------------------------------
(* Frame conditions of reserve_slot and finalize_booking: C33, C34 *)

\* C33: a reserve_slot call that returns false, for any interval and any
\* reservation id, gives back the table it was called on; a book_consultation
\* call that ends for that reason has left the bookings as they were.
C33_RefusedReserveChangesNothing ==
    /\ [](\A a \in Intervals, id \in 1..(tokens + 1) :
              LET r == reserve_slot(bookings, a.start, a.end, id)
              IN  ~r.ok => r.table = bookings)
    /\ [][\A p \in Procs, ok \in BOOLEAN :
              ( /\ McpBusyReturns(p, ok)
                /\ proc'[p].result = "This slot was just booked by someone else." )
              => bookings' = bookings]_vars

\* C33 witness: a book_consultation call was refused by reserve_slot while
\* another row holds an overlapping interval
C33_Witness ==
    \E p \in Procs :
        /\ proc[p].pc = "done"
        /\ proc[p].result = "This slot was just booked by someone else."
        /\ OverlappingRows(bookings, proc[p].slot.start, proc[p].slot.end) # {}

\* the id and the interval of every row
RowIntervals(table) ==
    {[id |-> r.id, slot_start |-> r.slot_start, slot_end |-> r.slot_end] : r \in table}

\* C34: finalize_booking, for any booking id and any interval the Booking
\* carries, keeps the id and the interval of every row and every row with
\* another id as it is, and changes nothing when no row has the id; the
\* finalize step of book_consultation keeps the reserved interval.
C34_FinalizeKeepsIntervals ==
    /\ [](\A a \in Intervals, id \in 1..(tokens + 1) :
              LET b == Row(id, GoodName, <<"mcp">>, GoodEmail, GoodEmail, <<>>,
                           a.start, a.end, <<0>>, <<0>>)
                  t == finalize_booking(bookings, b)
              IN  /\ RowIntervals(t) = RowIntervals(bookings)
                  /\ {r \in t : r.id # id} = {r \in bookings : r.id # id}
                  /\ id \notin Ids(bookings) => t = bookings)
    /\ [][\A p \in Procs :
              McpCreateEventReturns(p)
              => /\ RowIntervals(bookings') = RowIntervals(bookings)
                 /\ {r \in bookings' : r.id # proc[p].reservation_id}
                        = {r \in bookings : r.id # proc[p].reservation_id}]_vars

\* C34 witness: a reservation was finalized next to a row of another id, and
\* its row carries the guest's detail and the interval that was reserved
C34_Witness ==
    \E p \in Procs, r \in bookings :
        /\ proc[p].pc = "done" /\ proc[p].result = "confirmed"
        /\ r.id = proc[p].reservation_id
        /\ ~IsPlaceholder(r) /\ RowSlot(r) = proc[p].slot
        /\ \E q \in bookings : q.id # r.id

----------------------------------------------------------------------------
(* A failed create_event of the book calendar: C40 *)

\* C40: when the book calendar's create_event fails, create_event raises at
\* once and no watch calendar is touched; no blocker creation is attempted in
\* a create_event call before the book calendar's event exists.
C40_NoBlockerWithoutBookEvent ==
    /\ []((multi.op = "create_event" /\ multi.attempted # {}) => multi.book_ok)
    /\ [][BookCreateReturns(FALSE)
              => /\ multi'.pc = "done" /\ multi'.raised /\ multi'.attempted = {}
                 /\ calendars' = calendars]_vars

\* C40 witness: a create_event call raised and no calendar holds an event
C40_Witness ==
    /\ multi.op = "create_event" /\ multi.pc = "done" /\ multi.raised
    /\ multi.attempted = {}
    /\ \A c \in Providers : calendars[c].created_events = {}

----------------------------------------------------------------------------
(* retry_async (retry.py): C37 *)

TRANSIENT_HTTP_CODES == {429, 500, 502, 503, 504}

\* the exceptions the wrapped function may raise: by type name, with the
\* status code an APIStatusError carries
Exception(type, status_code) == [type |-> type, status_code |-> status_code]

Exceptions ==
    {Exception("ConnectionError", 0), Exception("ValueError", 0),
     Exception("APIStatusError", 503), Exception("APIStatusError", 400)}

\* fault: every error is retried
_is_retryableAlways(exc) == TRUE

\* _is_retryable
_is_retryable(exc) ==
    IF exc.type \in {"RateLimitError", "InternalServerError", "APIConnectionError"} THEN TRUE
    ELSE IF exc.type = "APIStatusError" THEN exc.status_code \in TRANSIENT_HTTP_CODES
    ELSE exc.type \in {"ConnectionError", "TimeoutError", "OSError"}

\* retry_async is called: last_exc = None and the loop starts with attempt 0
RetryBegin(max_retries) ==
    /\ retry.pc \in {"idle", "returned", "raised"}
    /\ retry.runs < MaxRuns
    /\ retry' = [RetryIdle EXCEPT !.pc = "call", !.max_retries = max_retries,
                                  !.runs = retry.runs + 1]
    /\ UNCHANGED <<bookings, conversations, rules, events, config, now, tokens, started, proc,
                   calvars, valvars, reminder, owner>>

\* fn(*args, **kwargs) returns: retry_async returns its result
RetryCallReturns ==
    /\ retry.pc = "call"
    /\ retry' = [retry EXCEPT !.pc = "returned", !.calls = @ + 1]
    /\ UNCHANGED <<bookings, conversations, rules, events, config, now, tokens, started, proc,
                   calvars, valvars, reminder, owner>>

\* fn(*args, **kwargs) raises exc: re-raise, or sleep before the next attempt
RetryCallRaises(exc) ==
    /\ retry.pc = "call"
    /\ retry' = [retry EXCEPT
           !.calls = @ + 1,
           !.errors = Append(@, exc),
           !.last_exc = <<exc>>,
           !.raised = IF ~_is_retryable(exc) \/ retry.attempt = retry.max_retries
                          THEN <<exc>> ELSE @,
           !.pc = IF ~_is_retryable(exc) \/ retry.attempt = retry.max_retries
                      THEN "raised" ELSE "sleep"]
    /\ UNCHANGED <<bookings, conversations, rules, events, config, now, tokens, started, proc,
                   calvars, valvars, reminder, owner>>

\* await asyncio.sleep(delay) returns: the next pass of the loop
RetryWakes ==
    /\ retry.pc = "sleep"
    /\ retry' = [retry EXCEPT !.pc = "call", !.attempt = @ + 1]
    /\ UNCHANGED <<bookings, conversations, rules, events, config, now, tokens, started, proc,
                   calvars, valvars, reminder, owner>>

RetryInit ==
    /\ calendars = <<>>
    /\ multi = MultiIdle
    /\ NoMessages
    /\ NoExtras
    /\ bookings = {}
    /\ conversations = [s \in {} |-> NewConversation]
    /\ rules = InitRules
    /\ events = {}
    /\ config = [dry_run |-> FALSE, has_tools |-> TRUE]
    /\ now = 0
    /\ tokens = 0
    /\ started = 0
    /\ proc = [p \in Procs |-> IdleLocal]

RetryNext ==
    \/ \E max_retries \in 0..MaxRetries : RetryBegin(max_retries)
    \/ RetryCallReturns
    \/ \E exc \in Exceptions : RetryCallRaises(exc)
    \/ RetryWakes

RetrySpec == RetryInit /\ [][RetryNext]_vars

\* C37: retry_async calls the function at most max_retries + 1 times; it
\* returns with the first call that succeeds; when the function raises only
\* ValueError it re-raises after one call; when every call raises a
\* connection error or a transient HTTP status it re-raises the last error
\* after max_retries + 1 calls.
C37_RetryBounded ==
    /\ retry.calls <= retry.max_retries + 1
    /\ retry.pc = "returned" => retry.calls = Len(retry.errors) + 1
    /\ \A k \in 1..Len(retry.errors) :
           retry.errors[k].type = "ValueError" => k = Len(retry.errors) /\ retry.pc = "raised"
    /\ ( /\ retry.pc = "raised"
         /\ \A k \in 1..Len(retry.errors) : retry.errors[k].type = "ValueError" )
       => retry.calls = 1 /\ retry.raised = <<retry.errors[1]>>
    /\ ( /\ retry.pc = "raised"
         /\ \A k \in 1..Len(retry.errors) :
                retry.errors[k] \in {Exception("ConnectionError", 0),
                                     Exception("APIStatusError", 503)} )
       => /\ retry.calls = retry.max_retries + 1
          /\ retry.raised = <<retry.errors[Len(retry.errors)]>>

\* C37 witness: with max_retries = 2, three calls failed with retryable errors
\* of two kinds and the last one was re-raised
C37_Witness ==
    /\ retry.pc = "raised" /\ retry.max_retries = 2 /\ retry.calls = 3
    /\ retry.errors[1] = Exception("ConnectionError", 0)
    /\ retry.raised = <<Exception("APIStatusError", 503)>>

----------------------------------------------------------------------------
(* The reminder loop (reminders.py): C36 *)

\* ReminderLoop.reminder_minutes (its default)
reminder_minutes == 60

_BATCH_LIMIT == 50

\* the channels ReminderLoop.adapters has an adapter for
ReminderAdapters == {<<"web">>}

\* the rows of a result set in the order SQLite returns them: by rowid, which
\* is the order of insertion and so of the drawn ids
RECURSIVE RowsInOrder(_)
RowsInOrder(rows) ==
    IF rows = {} THEN <<>>
    ELSE LET first == CHOOSE r \in rows : \A q \in rows : r.id <= q.id
         IN  <<first>> \o RowsInOrder(rows \ {first})

\* Database.get_upcoming_bookings_needing_reminder
get_upcoming_bookings_needing_reminder(table, after, before) ==
    RowsInOrder({r \in table :
                    /\ TextLess(isoformat(after), r.slot_start)
                    /\ ~TextLess(isoformat(before), r.slot_start)
                    /\ ~r.reminder_sent
                    /\ r.guest_name # <<>>})

\* fault: the UPDATE of mark_reminder_sent changes no row
mark_reminder_sentNoUpdate(table, booking_id) == table

\* Database.mark_reminder_sent: UPDATE bookings SET reminder_sent = 1 WHERE id = ?
mark_reminder_sent(table, booking_id) ==
    {IF r.id = booking_id THEN [r EXCEPT !.reminder_sent = TRUE] ELSE r : r \in table}

\* the end of the loop body for the first booking of the batch:
\* mark_reminder_sent, then the pause between two bookings
ReminderMarked(r, table) ==
    [reminder |-> [r EXCEPT !.pc = "pause",
                            !.processed = Append(@, Head(r.batch).id),
                            !.failed = IF r.send_failed THEN @ \cup {Head(r.batch).id} ELSE @,
                            !.send_failed = FALSE],
     table |-> mark_reminder_sent(table, Head(r.batch).id)]

\* the loop body for the first booking of the batch, after the guest's send
\* or where there is none: the owner's send is awaited if an owner adapter is
\* configured
ReminderOwnerPart(r, table) ==
    IF r.owner_adapter THEN [reminder |-> [r EXCEPT !.pc = "owner_send"], table |-> table]
    ELSE ReminderMarked(r, table)

\* the for loop of _check_and_send arrives at the first booking of r.batch, up
\* to its first await; with no booking left the check returns and _loop sleeps
ReminderBody(r, table) ==
    IF r.batch = <<>> THEN [reminder |-> [r EXCEPT !.pc = "sleep"], table |-> table]
    ELSE IF Head(r.batch).guest_channel \in ReminderAdapters
            /\ Head(r.batch).guest_sender_id # <<>>
        THEN [reminder |-> [r EXCEPT !.pc = "guest_send"], table |-> table]
    ELSE ReminderOwnerPart(r, table)

\* asyncio.sleep(check_interval) returns: _check_and_send selects its batch
ReminderCheck ==
    /\ \A q \in Procs : proc[q].pc # "tools"
    /\ reminder.pc = "sleep"
    /\ reminder.checks < MaxChecks
    /\ LET selected == get_upcoming_bookings_needing_reminder(bookings, now, now + reminder_minutes)
           batch == SubSeq(selected, 1, IF Len(selected) < _BATCH_LIMIT THEN Len(selected)
                                        ELSE _BATCH_LIMIT)
           r == ReminderBody([reminder EXCEPT !.batch = batch, !.checks = @ + 1], bookings)
       IN  /\ reminder' = r.reminder
           /\ bookings' = r.table
    /\ UNCHANGED <<conversations, rules, events, config, now, tokens, started, proc,
                   calvars, valvars, retry, owner>>

\* await adapter.send_message to the guest returned, or raised (logged)
ReminderGuestSendReturns(ok) ==
    /\ \A q \in Procs : proc[q].pc # "tools"
    /\ reminder.pc = "guest_send"
    /\ LET r == ReminderOwnerPart([reminder EXCEPT !.send_failed = ~ok], bookings)
       IN  /\ reminder' = r.reminder
           /\ bookings' = r.table
    /\ UNCHANGED <<conversations, rules, events, config, now, tokens, started, proc,
                   calvars, valvars, retry, owner>>

\* await owner_adapter.send_message returned, or raised (logged)
ReminderOwnerSendReturns(ok) ==
    /\ \A q \in Procs : proc[q].pc # "tools"
    /\ reminder.pc = "owner_send"
    /\ LET r == ReminderMarked([reminder EXCEPT !.send_failed = @ \/ ~ok], bookings)
       IN  /\ reminder' = r.reminder
           /\ bookings' = r.table
    /\ UNCHANGED <<conversations, rules, events, config, now, tokens, started, proc,
                   calvars, valvars, retry, owner>>

\* await asyncio.sleep(0.5) returned: the next booking of the batch
ReminderPauseReturns ==
    /\ \A q \in Procs : proc[q].pc # "tools"
    /\ reminder.pc = "pause"
    /\ LET r == ReminderBody([reminder EXCEPT !.batch = Tail(@)], bookings)
       IN  /\ reminder' = r.reminder
           /\ bookings' = r.table
    /\ UNCHANGED <<conversations, rules, events, config, now, tokens, started, proc,
                   calvars, valvars, retry, owner>>

\* half an hour passes, up to 09:30 of day 1
TimePasses ==
    /\ now + 30 <= MinutesPerDay + 9 * 60 + 30
    /\ now' = now + 30
    /\ UNCHANGED <<bookings, conversations, rules, events, config, tokens, started, proc,
                   calvars, valvars, extvars>>

\* a dry run without tool use, at 08:00 of day 1; the reminder loop has an
\* adapter for web guests and may have one for the owner
ReminderInit ==
    /\ calendars = <<>>
    /\ multi = MultiIdle
    /\ NoMessages
    /\ retry = RetryIdle
    /\ reminder \in {[ReminderIdle EXCEPT !.owner_adapter = b] : b \in BOOLEAN}
    /\ owner = OwnerIdle
    /\ bookings = {}
    /\ conversations = [s \in {} |-> NewConversation]
    /\ rules = InitRules
    /\ events = {}
    /\ config = [dry_run |-> TRUE, has_tools |-> FALSE]
    /\ now = MinutesPerDay + 8 * 60
    /\ tokens = 0
    /\ started = 0
    /\ proc = [p \in Procs |-> IdleLocal]

\* guest turns of the text path, book_consultation calls and the reminder loop
ReminderNext ==
    \/ \E p \in Procs : GuestBegin(p, <<"g1">>, "hello")
    \/ \E p \in Procs, r \in TextResponses : LlmTextReturns(p, r)
    \/ \E p \in Procs : GuestNotifyReturns(p)
    \/ \E p \in Procs, sv \in {"", "short"}, t \in StartTimes :
           McpBegin(p, GoodName, GoodEmail, sv, t)
    \/ \E p \in Procs : McpBusyReturns(p, TRUE)
    \/ ReminderCheck
    \/ \E ok \in BOOLEAN : ReminderGuestSendReturns(ok)
    \/ \E ok \in BOOLEAN : ReminderOwnerSendReturns(ok)
    \/ ReminderPauseReturns
    \/ TimePasses

ReminderSpec == ReminderInit /\ [][ReminderNext]_vars

\* C36: over the checks of the reminder loop no booking is processed twice; a
\* processed booking is marked reminder_sent, also when a send failed or its
\* channel has no adapter; and a check never selects a booking that an earlier
\* check has processed.
C36_ReminderAtMostOnce ==
    /\ [](/\ \A i, j \in 1..Len(reminder.processed) :
                 reminder.processed[i] = reminder.processed[j] => i = j
          /\ \A r \in bookings :
                 (\E i \in 1..Len(reminder.processed) : reminder.processed[i] = r.id)
                 => r.reminder_sent)
    /\ [][ReminderCheck
              => \A k \in 1..Len(reminder'.batch) :
                     \A i \in 1..Len(reminder.processed) :
                         reminder'.batch[k].id # reminder.processed[i]]_vars

\* C36 witness: a booking of the unknown channel "mcp" and a web booking whose
\* send failed were processed and marked, and a later check has run while
\* both still start inside its window
C36_Witness ==
    /\ reminder.checks >= 2 /\ reminder.pc = "sleep"
    /\ \E r \in bookings :
           /\ r.guest_channel = <<"mcp">> /\ r.reminder_sent
           /\ \E i \in 1..Len(reminder.processed) : reminder.processed[i] = r.id
    /\ \E r \in bookings :
           /\ r.guest_channel = <<"web">> /\ r.reminder_sent /\ r.id \in reminder.failed
           /\ now < fromisoformat(r.slot_start)
           /\ fromisoformat(r.slot_start) <= now + reminder_minutes

----------------------------------------------------------------------------
(* Cancelling a booking (mcp_server.py cancel_booking, channels/web.py
   execute_cancel): C38 *)

\* Database.get_booking_by_id: <<>> is None
get_booking_by_id(table, booking_id) ==
    IF \E r \in table : r.id = booking_id
        THEN <<CHOOSE r \in table : r.id = booking_id>>
    ELSE <<>>

\* Database.get_booking_by_cancel_token: <<>> is None
get_booking_by_cancel_token(table, cancel_token) ==
    IF cancel_token = <<>> THEN <<>>
    ELSE IF \E r \in table : r.cancel_token = cancel_token
        THEN <<CHOOSE r \in table : r.cancel_token = cancel_token>>
    ELSE <<>>

\* fault: the DELETE of delete_booking removes nothing
delete_bookingNoDelete(table, booking_id) == table

\* Database.delete_booking: DELETE FROM bookings WHERE id = ?
delete_booking(table, booking_id) == {r \in table : r.id # booking_id}

\* the calendar once its delete_event(event_id) has returned
EventsWithout(evs, event_id) == {e \in evs : <<e.event_id>> # event_id}

\* what is left of a cancellation's locals once it has returned; booking is
\* the booking it looked up, event_failure whether delete_event raised
CancelDone(l, result) ==
    [IdleLocal EXCEPT !.pc = "done", !.kind = l.kind, !.result = result,
                      !.booking = l.booking, !.event_failure = l.event_failure]

\* a cancellation that has looked up `found` (a booking or None), up to its
\* next await: delete_event when the booking has a calendar event, else
\* delete_booking and, on the web, the owner's notification
Cancel(p, kind, found) ==
    LET l == [IdleLocal EXCEPT !.kind = kind, !.booking = found]
    IN  IF found = <<>>
            THEN /\ proc' = [proc EXCEPT ![p] = CancelDone(l, "Booking not found.")]
                 /\ bookings' = bookings
        ELSE IF Head(found).calendar_event_id # <<>> /\ Head(found).calendar_event_id # <<0>>
            THEN /\ proc' = [proc EXCEPT ![p] = [l EXCEPT !.pc = "cancel_delete"]]
                 /\ bookings' = bookings
        ELSE /\ proc' = [proc EXCEPT ![p] =
                     IF kind = "web_cancel" THEN [l EXCEPT !.pc = "cancel_notify"]
                     ELSE CancelDone(l, "cancelled")]
             /\ bookings' = delete_booking(bookings, Head(found).id)

\* cancel_booking(booking_id) up to its first await
McpCancelBegin(p, booking_id) ==
    /\ Scheduled(p)
    /\ proc[p].pc \in {"idle", "done"}
    /\ started < MaxOps + MaxCancels
    /\ started' = started + 1
    /\ Cancel(p, "mcp_cancel", get_booking_by_id(bookings, booking_id))
    /\ UNCHANGED <<conversations, rules, events, config, calvars, valvars, extvars, now, tokens>>

\* execute_cancel(cancel_token) from the point where the form has been read
\* and the CSRF nonce verified, up to its next await
WebCancelBegin(p, cancel_token) ==
    /\ Scheduled(p)
    /\ proc[p].pc \in {"idle", "done"}
    /\ started < MaxOps + MaxCancels
    /\ started' = started + 1
    /\ Cancel(p, "web_cancel", get_booking_by_cancel_token(bookings, cancel_token))
    /\ UNCHANGED <<conversations, rules, events, config, calvars, valvars, extvars, now, tokens>>

\* await calendar.delete_event returned, or raised (logged): delete_booking
CancelDeleteEventReturns(p, deleted) ==
    /\ Scheduled(p)
    /\ proc[p].pc = "cancel_delete"
    /\ events' = IF deleted THEN EventsWithout(events, Head(proc[p].booking).calendar_event_id)
                 ELSE events
    /\ bookings' = delete_booking(bookings, Head(proc[p].booking).id)
    /\ LET l == [proc[p] EXCEPT !.event_failure = IF deleted THEN "none" ELSE "last"]
       IN  proc' = [proc EXCEPT ![p] =
               IF l.kind = "web_cancel" THEN [l EXCEPT !.pc = "cancel_notify"]
               ELSE CancelDone(l, "cancelled")]
    /\ UNCHANGED <<conversations, rules, config, calvars, valvars, extvars, now, tokens, started>>

\* await _notifier.channel.send_message returned or raised: the response
WebCancelNotifyReturns(p) ==
    /\ Scheduled(p)
    /\ proc[p].pc = "cancel_notify"
    /\ proc' = [proc EXCEPT ![p] = CancelDone(proc[p], "cancelled")]
    /\ UNCHANGED <<bookings, conversations, rules, events, config, calvars, valvars, extvars, now, tokens, started>>

\* the ids and cancel tokens callers hold: those of finalized bookings, and
\* one that names no booking
KnownIds == {r.id : r \in {q \in bookings : ~IsPlaceholder(q)}} \cup {0}

KnownTokens == {r.cancel_token : r \in {q \in bookings : ~IsPlaceholder(q)}} \cup {<<0>>}

\* calendar events are created for real; guests use the text path
CancelInit ==
    /\ calendars = <<>>
    /\ multi = MultiIdle
    /\ NoMessages
    /\ NoExtras
    /\ bookings = {}
    /\ conversations = [s \in {} |-> NewConversation]
    /\ rules = InitRules
    /\ events = {}
    /\ config \in [dry_run : BOOLEAN, has_tools : {FALSE}]
    /\ now = 0
    /\ tokens = 0
    /\ started = 0
    /\ proc = [p \in Procs |-> IdleLocal]

\* bookings by guests and by book_consultation, and their cancellation
CancelNext ==
    \/ \E p \in Procs : GuestBegin(p, <<"g1">>, "hello")
    \/ \E p \in Procs : GuestBusyReturns(p, TRUE)
    \/ \E p \in Procs, r \in TextResponses : LlmTextReturns(p, r)
    \/ \E p \in Procs : GuestCreateEventReturns(p)
    \/ \E p \in Procs : GuestNotifyReturns(p)
    \/ \E p \in Procs, sv \in {"", "short"}, t \in StartTimes :
           McpBegin(p, GoodName, GoodEmail, sv, t)
    \/ \E p \in Procs : McpBusyReturns(p, TRUE)
    \/ \E p \in Procs : McpCreateEventFails(p)
    \/ \E p \in Procs : McpCreateEventReturns(p)
    \/ \E p \in Procs : McpNotifyReturns(p)
    \/ \E p \in Procs : \E booking_id \in KnownIds : McpCancelBegin(p, booking_id)
    \/ \E p \in Procs : \E cancel_token \in KnownTokens : WebCancelBegin(p, cancel_token)
    \/ \E p \in Procs, deleted \in BOOLEAN : CancelDeleteEventReturns(p, deleted)
    \/ \E p \in Procs : WebCancelNotifyReturns(p)

CancelSpec == CancelInit /\ [][CancelNext]_vars

\* the step of cancellation p in which delete_booking runs
CancelDeletes(p) ==
    /\ \/ \E booking_id \in KnownIds : McpCancelBegin(p, booking_id)
       \/ \E cancel_token \in KnownTokens : WebCancelBegin(p, cancel_token)
       \/ \E deleted \in BOOLEAN : CancelDeleteEventReturns(p, deleted)
    /\ proc'[p].pc \in {"done", "cancel_notify"}
    /\ proc'[p].booking # <<>>

----------------------------------------------------------------------------
(* Owner mode (core/engine.py), the channel adapters and the web rules API:
   C32, C35 *)

\* the tool-use loop of an owner turn: for _ in range(5)
OWNER_TOOL_ITERATIONS == 5

\* config.owner.owner_ids: the owner's id on telegram and on the web; no entry
\* for discord
owner_ids == [telegram |-> <<"o1">>, web |-> <<"o1">>]

\* fault: the owner's id of any channel is accepted on every channel
_is_ownerAnyChannel(channel, sender_id) ==
    \E c \in DOMAIN owner_ids : owner_ids[c] # <<>> /\ owner_ids[c] = sender_id

\* SchedulingEngine._is_owner
_is_owner(channel, sender_id) ==
    LET owner_id == IF channel \in DOMAIN owner_ids THEN owner_ids[channel] ELSE <<>>
    IN  owner_id # <<>> /\ owner_id = sender_id

\* Database.add_availability_rule; the table stays in the order in which
\* get_availability_rules returns it, a new row after the rows of equal keys
add_availability_rule(rs, rule) ==
    LET k == Cardinality({i \in 1..Len(rs) : RuleOrder(rs[i], rule)})
    IN  SubSeq(rs, 1, k) \o <<rule>> \o SubSeq(rs, k + 1, Len(rs))

\* the WHERE clause of clear_availability_rules: every non-empty argument
\* must match (no argument: every row)
ClearMatches(r, day_of_week, specific_date) ==
    /\ day_of_week # "" => r.day_of_week = day_of_week
    /\ specific_date # <<>> => r.specific_date = specific_date

\* Database.clear_availability_rules
clear_availability_rules(rs, day_of_week, specific_date) ==
    LET Keep(r) == ~ClearMatches(r, day_of_week, specific_date)
    IN  SelectSeq(rs, Keep)

\* the params of an owner tool call or action tag: params.get(key, "") of
\* every key
RuleParams(day, date, start, end) == [day |-> day, date |-> date, start |-> start, end |-> end]

OwnerToolCall(name, params) == [name |-> name, params |-> params]

\* SchedulingEngine._execute_tool: the rules table it leaves
_execute_tool(rs, name, params) ==
    IF name = "add_rule"
        THEN add_availability_rule(rs, AvailabilityRule(params.day, params.date, params.start,
                                                        params.end, FALSE))
    ELSE IF name = "block_time"
        THEN add_availability_rule(rs, AvailabilityRule(params.day, params.date, params.start,
                                                        params.end, TRUE))
    ELSE IF name = "clear_rules" THEN clear_availability_rules(rs, params.day, params.date)
    ELSE IF name = "clear_all" THEN clear_availability_rules(rs, "", <<>>)
    ELSE rs

\* for tc in result.tool_calls: self._execute_tool(tc.name, tc.input)
RECURSIVE ExecuteTools(_, _)
ExecuteTools(rs, calls) ==
    IF calls = <<>> THEN rs
    ELSE ExecuteTools(_execute_tool(rs, Head(calls).name, Head(calls).params), Tail(calls))

\* the [ADD_RULE:...] or [BLOCK_RULE:...] matches of a response, in order: a
\* rule is stored when both times are given
RECURSIVE AddTagged(_, _, _)
AddTagged(rs, tags, is_blocked) ==
    IF tags = <<>> THEN rs
    ELSE LET rule == AvailabilityRule(Head(tags).day, Head(tags).date, Head(tags).start,
                                      Head(tags).end, is_blocked)
         IN  AddTagged(IF rule.start_time # <<>> /\ rule.end_time # <<>>
                           THEN add_availability_rule(rs, rule) ELSE rs,
                       Tail(tags), is_blocked)

\* the [CLEAR_RULES:...] matches of a response, in order
RECURSIVE ClearTagged(_, _)
ClearTagged(rs, tags) ==
    IF tags = <<>> THEN rs
    ELSE ClearTagged(clear_availability_rules(rs, Head(tags).day, Head(tags).date), Tail(tags))

\* a response of the model on the text path: its action tags by kind
OwnerResponse(adds, blocks, clears, clear_all) ==
    [adds |-> adds, blocks |-> blocks, clears |-> clears, clear_all |-> clear_all]

\* SchedulingEngine._execute_owner_actions: the rules table it leaves
_execute_owner_actions(rs, response) ==
    LET added == AddTagged(rs, response.adds, FALSE)
        blocked == AddTagged(added, response.blocks, TRUE)
        cleared == ClearTagged(blocked, response.clears)
    IN  IF response.clear_all THEN clear_availability_rules(cleared, "", <<>>) ELSE cleared

\* the day and date arguments the model and the API clients may give
OwnerRuleParams ==
    {RuleParams(day, date, <<9, 0>>, <<10, 15>>) : day \in {"", "tuesday"}, date \in {<<>>, <<1>>}}

\* a block of Tuesdays
BlockParams == RuleParams("tuesday", <<>>, <<9, 0>>, <<10, 15>>)

OwnerToolCalls ==
    {OwnerToolCall("add_rule", params) : params \in OwnerRuleParams}
    \cup {OwnerToolCall("block_time", BlockParams)}
    \cup {OwnerToolCall("clear_rules", RuleParams(day, <<>>, <<>>, <<>>)) : day \in {"", "tuesday"}}
    \cup {OwnerToolCall(name, RuleParams("", <<>>, <<>>, <<>>)) :
              name \in {"clear_all", "show_rules"}}

OwnerResponses ==
    {OwnerResponse(<<>>, <<>>, <<>>, b) : b \in BOOLEAN}
    \cup {OwnerResponse(<<params>>, <<>>, <<>>, FALSE) : params \in OwnerRuleParams}
    \cup {OwnerResponse(<<>>, <<BlockParams>>, <<>>, FALSE)}
    \cup {OwnerResponse(<<>>, <<>>, <<RuleParams("", <<1>>, <<>>, <<>>)>>, FALSE)}
    \cup {OwnerResponse(<<RuleParams("tuesday", <<>>, <<>>, <<10, 15>>)>>, <<>>, <<>>, FALSE)}

\* what is left of an owner turn once _handle_owner_message has returned
OwnerDone(o) ==
    [OwnerIdle EXCEPT !.pc = "done", !.channel = o.channel, !.sender_id = o.sender_id,
                      !.handled = o.handled]

\* _handle_owner_message up to its first await: the quick commands return at
\* once, other messages load the conversation and call the model
_handle_owner_message(channel, sender_id, text) ==
    /\ owner.pc \in {"idle", "done"}
    /\ owner.handled < MaxOwnerMessages
    /\ LET o == [OwnerIdle EXCEPT !.channel = channel, !.sender_id = sender_id,
                                  !.handled = owner.handled + 1]
       IN  IF text = "/schedule"
               THEN /\ owner' = OwnerDone(o)
                    /\ UNCHANGED <<rules, conversations>>
           ELSE IF text = "/clear"
               THEN /\ owner' = OwnerDone(o)
                    /\ rules' = clear_availability_rules(rules, "", <<>>)
                    /\ UNCHANGED conversations
           ELSE /\ owner' = [o EXCEPT !.pc = "llm", !.has_tools = config.has_tools,
                                      !.conv = IF text = "/start" THEN NewConversation
                                               ELSE get_conversation(conversations, sender_id)]
                /\ conversations' =
                       IF text = "/start" THEN delete_conversation(conversations, sender_id)
                       ELSE conversations
                /\ UNCHANGED rules
    /\ UNCHANGED <<bookings, events, config, now, tokens, started, proc, calvars, valvars,
                   retry, reminder>>

\* SchedulingEngine.handle_message: the owner's messages go to
\* _handle_owner_message, all others to the guest flow
RouteMessage(p, channel, sender_id, text) ==
    IF _is_owner(channel, sender_id) THEN _handle_owner_message(channel, sender_id, text)
    ELSE BeginTurn(p, sender_id, text, MaxGuestTurns) /\ UNCHANGED <<valvars, extvars>>

\* the telegram adapter: sender_id is the user's id
TelegramMessage(p, sender_id, text) == RouteMessage(p, "telegram", sender_id, text)

\* the discord adapter: sender_id is the user's id
DiscordMessage(p, sender_id, text) == RouteMessage(p, "discord", sender_id, text)

\* the web adapter's handle_message: sender_id is the request's, prefixed
WebMessage(p, sender_id, text) == RouteMessage(p, "web", <<"web:">> \o sender_id, text)

\* await self.llm.chat_with_tools raised, or returned text and no tool call:
\* the owner turn ends and saves its conversation
OwnerLlmAnswers ==
    /\ owner.pc = "llm" /\ owner.has_tools
    /\ owner' = OwnerDone(owner)
    /\ conversations' = save_conversation(conversations, owner.sender_id, owner.conv)
    /\ UNCHANGED <<bookings, rules, events, config, now, tokens, started, proc, calvars, valvars,
                   retry, reminder>>

\* await self.llm.chat_with_tools returned tool calls: each is executed, then
\* the next pass of the loop, or the fallback text after the last pass
OwnerLlmCallsTools(calls) ==
    /\ owner.pc = "llm" /\ owner.has_tools
    /\ owner.iter < MaxRounds
    /\ Len(ExecuteTools(rules, calls)) <= MaxRules
    /\ rules' = ExecuteTools(rules, calls)
    /\ IF owner.iter + 1 < OWNER_TOOL_ITERATIONS
           THEN /\ owner' = [owner EXCEPT !.iter = @ + 1]
                /\ UNCHANGED conversations
           ELSE /\ owner' = OwnerDone(owner)
                /\ conversations' =
                       save_conversation(conversations, owner.sender_id, owner.conv)
    /\ UNCHANGED <<bookings, events, config, now, tokens, started, proc, calvars, valvars,
                   retry, reminder>>

\* await self.llm.chat returned (or raised: no tag): _execute_owner_actions,
\* then the owner turn ends and saves its conversation
OwnerLlmTextReturns(response) ==
    /\ owner.pc = "llm" /\ ~owner.has_tools
    /\ Len(_execute_owner_actions(rules, response)) <= MaxRules
    /\ rules' = _execute_owner_actions(rules, response)
    /\ owner' = OwnerDone(owner)
    /\ conversations' = save_conversation(conversations, owner.sender_id, owner.conv)
    /\ UNCHANGED <<bookings, events, config, now, tokens, started, proc, calvars, valvars,
                   retry, reminder>>

\* POST /api/schedule/rules with a valid API key: the day name, the times and
\* the date format are checked, then the rule is stored
WebAddRule(req, is_blocked) ==
    /\ Len(rules) < MaxRules
    /\ rules' = add_availability_rule(rules, AvailabilityRule(req.day, req.date, req.start,
                                                              req.end, is_blocked))
    /\ UNCHANGED <<bookings, conversations, events, config, now, tokens, started, proc,
                   calvars, valvars, extvars>>

\* a dry run; the model may or may not support tool use
OwnerInit ==
    /\ calendars = <<>>
    /\ multi = MultiIdle
    /\ NoMessages
    /\ NoExtras
    /\ bookings = {}
    /\ conversations = [s \in {} |-> NewConversation]
    /\ rules = InitRules
    /\ events = {}
    /\ config \in [dry_run : {TRUE}, has_tools : BOOLEAN]
    /\ now = 0
    /\ tokens = 0
    /\ started = 0
    /\ proc = [p \in Procs |-> IdleLocal]

\* the ids senders give on the channels
ChannelSenders == {<<"g1">>, <<"o1">>}

OwnerTexts == {"/schedule", "/clear", "/start", "hello"}

\* the tool calls of the guest turns here: name and email, then the first slot
GuestToolCalls ==
    {ToolCall("collect_guest_info", ToolInput(GoodName, PaddedEmail, <<>>, 0, <<>>)),
     ToolCall("confirm_booking", ToolInput(<<>>, <<>>, <<>>, 1, <<>>))}

\* messages of the owner and of guests on three channels, the turns they
\* start, and the rules API
OwnerNext ==
    \/ \E s \in ChannelSenders, text \in OwnerTexts : TelegramMessage("p1", s, text)
    \/ \E s \in ChannelSenders, text \in OwnerTexts : DiscordMessage("p1", s, text)
    \/ \E s \in ChannelSenders, text \in OwnerTexts : WebMessage("p1", s, text)
    \/ OwnerLlmAnswers
    \/ \E tc1 \in OwnerToolCalls : OwnerLlmCallsTools(<<tc1>>)
    \/ \E tc1 \in OwnerToolCalls : OwnerLlmCallsTools(<<tc1, OwnerToolCall("clear_rules", RuleParams("", <<1>>, <<>>, <<>>))>>)
    \/ \E response \in OwnerResponses : OwnerLlmTextReturns(response)
    \/ \E req \in OwnerRuleParams : WebAddRule(req, FALSE)
    \/ WebAddRule(BlockParams, TRUE)
    \/ \E p \in Procs : GuestBusyReturns(p, TRUE)
    \/ \E p \in Procs : LlmAnswers(p)
    \/ \E p \in Procs : LlmCallsTools(p)
    \/ \E p \in Procs, tc \in GuestToolCalls : ExecTool(p, tc)
    \/ \E p \in Procs : EndTools(p)
    \/ \E p \in Procs, r \in {x \in TextResponses : x.tag = "none" \/ x.n = 1} :
           LlmTextReturns(p, r)
    \/ \E p \in Procs : GuestNotifyReturns(p)

OwnerSpec == OwnerInit /\ [][OwnerNext]_vars

\* C32 (as stated): every stored availability rule has exactly one of
\* day_of_week and specific_date set.
C32_RulesNameDayOrDate ==
    \A k \in 1..Len(rules) : (rules[k].day_of_week = "") # (rules[k].specific_date = <<>>)

\* C35: owner mode is entered only by a message whose sender_id is the
\* non-empty owner id configured for the message's channel, and no step
\* outside an owner turn (and the rules API) changes the rules: a guest's
\* message or turn, on any channel, never does.
C35_OnlyOwnerChangesRules ==
    /\ [](owner.pc # "idle"
              => /\ owner.channel \in DOMAIN owner_ids
                 /\ owner.sender_id # <<>>
                 /\ owner.sender_id = owner_ids[owner.channel])
    /\ [][rules' # rules
              => \/ owner' # owner /\ proc' = proc
                 \/ \E req \in OwnerRuleParams \cup {BlockParams}, is_blocked \in BOOLEAN :
                        WebAddRule(req, is_blocked)]_vars

\* C35 witness: the owner's telegram id was sent on discord or on the web
\* and was served a guest turn, and the owner has cleared the rules on
\* telegram
C35_Witness ==
    /\ proc["p1"].sender \in {<<"o1">>, <<"web:", "o1">>}
    /\ proc["p1"].pc = "done" /\ proc["p1"].kind \in {"tools", "text"}
    /\ owner.pc = "done" /\ owner.channel = "telegram" /\ rules = <<>>

====
